---- MODULE Spec2Model ----
(***************************************************************************)
(* Model of cirq_google's argument codec (serialization/arg_func_langs.py) *)
(* and operation deserializers (serialization/op_deserializer.py).         *)
(*                                                                         *)
(* Python values are records tagged by `tag`; wire (protobuf) messages are *)
(* records whose `which` field is the selected member of their oneof.      *)
(* A number is carried as `twice`, two times its value, so that halves are *)
(* representable and "is integral" is `twice % 2 = 0`.                     *)
(***************************************************************************)
EXTENDS Integers, Sequences, FiniteSets, TLC

VARIABLES
    call,       \* the function that ran last ("init" before any call)
    lang,       \* arg_function_language
    ret,        \* what the last call returned or raised
    value,      \* the Python value handed to an encoder
    required,   \* required_arg_name handed to a decoder
    msg,        \* the wire argument record (encoder's out / decoder's input)
    program,    \* the wire Circuit handed to the tier inference
    deserializer,   \* the fields of the GateOpDeserializer in use
    proto,      \* the wire Operation / CircuitOperation handed to from_proto
    constants,  \* the `constants` argument of from_proto
    deserialized_constants, \* the `deserialized_constants` argument
    reads,      \* the positions of deserialized_constants the last call read
    tasks,      \* the decodes running concurrently, one record per thread
    table,      \* the constant table of a program being resolved in one pass
    log,        \* the circuit-operation decodes the pass has made so far
    engine      \* an Engine, its context and the calls its client has received

codecVars == <<value, required, msg>>
opVars == <<deserializer, proto, constants, deserialized_constants, reads>>
moreVars == <<tasks, table, log, engine>>
vars == <<call, lang, ret, codecVars, program, opVars, moreVars>>

----------------------------------------------------------------------------
(* Bounds of the model *)

\* Numbers are 0, 1/2, ..., MaxTwice/2.
MaxTwice == 3
\* Bool lists have 0..MaxBools entries.
MaxBools == 2
\* Expression trees and wire function trees hold at most MaxFuncNodes
\* function nodes.
MaxFuncNodes == 2

----------------------------------------------------------------------------
(* Python's None, for optional strings and optional values *)

None == "<None>"
NoValue == [tag |-> "none"]

Error(kind) == [tag |-> "error", kind |-> kind]
IsError(r) == r.tag = "error"

\* The errors the code raises, named after the spec's taxonomy:
\*   arg_func_langs.py:170  'Function type ... not supported by ...'
UnsupportedOperator == "UnsupportedOperator"
\*   arg_func_langs.py:176, 317  'Unrecognized arg_function_language'
UnrecognizedLanguage == "UnrecognizedLanguage"
\*   arg_func_langs.py:194  'Unrecognized arg type'
UnrecognizedArgType == "UnrecognizedArgType"
\*   arg_func_langs.py:320  'Unrecognized function type'
UnrecognizedFunction == "UnrecognizedFunction"
\*   arg_func_langs.py:242, 301 and op_deserializer.py:208  '... is missing'
MissingRequiredArgument == "MissingRequiredArgument"
\*   arg_func_langs.py:286, 245  'Unrecognized value type'
UnrecognizedArgumentShape == "UnrecognizedArgumentShape"
\*   a TypeError raised by a constructor called with the wrong arity
PyTypeError == "TypeError"

----------------------------------------------------------------------------
(* The tier table *)

LANGUAGE_ORDER == <<"", "linear", "exp">>

MOST_PERMISSIVE_LANGUAGE == "exp"

\* A mutant of the table: 'exp' forgets 'add'.
SUPPORTED_FUNCTIONS_exp_without_add(language) ==
    CASE language = "" -> {}
      [] language = "linear" -> {"add", "mul"}
      [] language = "exp" -> {"mul", "pow"}
      [] language = None -> {"add", "mul", "pow"}
      [] OTHER -> {}

\* The keys of the dict SUPPORTED_FUNCTIONS_FOR_LANGUAGE.
SUPPORTED_LANGUAGES == {"", "linear", "exp", None}

\* SUPPORTED_FUNCTIONS_FOR_LANGUAGE[language], for a key of the dict.
SUPPORTED_FUNCTIONS_FOR_LANGUAGE(language) ==
    CASE language = "" -> {}
      [] language = "linear" -> {"add", "mul"}
      [] language = "exp" -> {"add", "mul", "pow"}
      [] language = None -> {"add", "mul", "pow"}
      [] OTHER -> {}

\* LANGUAGE_ORDER.index(e), zero-based as in Python.
LanguageIndex(e) == (CHOOSE i \in 1..Len(LANGUAGE_ORDER) : LANGUAGE_ORDER[i] = e) - 1

Max(S) == CHOOSE m \in S : \A x \in S : x <= m

\* A mutant: the least index in place of the greatest.
_max_lang_least(langs) ==
    LET i == IF langs = {} THEN 0
             ELSE CHOOSE m \in {LanguageIndex(e) : e \in langs} :
                     \A x \in {LanguageIndex(e) : e \in langs} : m <= x
    IN LANGUAGE_ORDER[i + 1]

_max_lang(langs) ==
    LET i == IF langs = {} THEN 0 ELSE Max({LanguageIndex(e) : e \in langs})
    IN LANGUAGE_ORDER[i + 1]

----------------------------------------------------------------------------
(* Python values *)

Num(kind, twice) == [tag |-> "num", kind |-> kind, twice |-> twice]
Sym(name) == [tag |-> "sym", name |-> name]
Str(text) == [tag |-> "str", text |-> text]
Bools(values) == [tag |-> "bools", values |-> values]
Func(type, args) == [tag |-> "func", type |-> type, args |-> args]
\* A value of none of the supported types (e.g. a list of strings).
Other == [tag |-> "other"]

IsIntegral(twice) == twice % 2 = 0

\* Python's == on the values of the model: numbers compare by value (1 == 1.0),
\* everything else structurally.
RECURSIVE PyEq(_, _)
PyEq(a, b) ==
    IF a.tag # b.tag THEN FALSE
    ELSE CASE a.tag = "num" -> a.twice = b.twice
           [] a.tag = "func" ->
                /\ a.type = b.type
                /\ Len(a.args) = Len(b.args)
                /\ \A i \in 1..Len(a.args) : PyEq(a.args[i], b.args[i])
           [] OTHER -> a = b

----------------------------------------------------------------------------
(* Wire records: v2.program_pb2.Arg, FloatArg and ArgFunction *)

\* A message with no member of its oneof set.
UnsetArg == [which |-> "unset"]

\* Arg.arg_value with float_value / bool_values / string_value selected, or
\* present with nothing selected.
ArgFloat(twice) == [which |-> "arg_value", which_val |-> "float_value", twice |-> twice]
ArgDouble(twice) == [which |-> "arg_value", which_val |-> "double_value", twice |-> twice]
ArgBools(values) == [which |-> "arg_value", which_val |-> "bool_values", values |-> values]
ArgString(text) == [which |-> "arg_value", which_val |-> "string_value", text |-> text]
ArgEmptyValue == [which |-> "arg_value", which_val |-> "unset"]
\* FloatArg.float_value
FloatArgFloat(twice) == [which |-> "float_value", twice |-> twice]
\* Arg.symbol / FloatArg.symbol
ArgSymbol(name) == [which |-> "symbol", name |-> name]
\* Arg.func / FloatArg.func: an ArgFunction {type, args}
ArgFunc(type, args) == [which |-> "func", type |-> type, args |-> args]

----------------------------------------------------------------------------
(* Encoding: arg_to_proto, float_arg_to_proto, _arg_func_to_proto *)

\* An encoder's outcome: the record it wrote into, and the error it raised
\* ("ok" when it returned).  A raise leaves in `msg` what was written before it.
NoError == "ok"
Wrote(m) == [msg |-> m, err |-> NoError]
Raised(m, kind) == [msg |-> m, err |-> kind]

\* msg.func.type = t: selects `func` in the oneof; an already selected func
\* keeps its operands.
SetFuncType(m, t) ==
    IF m.which = "func" THEN [m EXCEPT !.type = t] ELSE ArgFunc(t, <<>>)

\* msg.arg_value.bool_values.values.extend(values): selects arg_value and
\* bool_values (also for no values) and appends to what bool_values holds.
ExtendBoolValues(m, values) ==
    IF m.which = "arg_value" /\ m.which_val = "bool_values"
    THEN [m EXCEPT !.values = @ \o values]
    ELSE ArgBools(values)

\* check_support(func_type): TRUE when it returns, FALSE when it raises.
check_support(func_type, arg_function_language) ==
    func_type \in SUPPORTED_FUNCTIONS_FOR_LANGUAGE(arg_function_language)

RECURSIVE arg_to_proto(_, _, _)
RECURSIVE EncodeOperands(_, _, _)

\* for arg in value.args:
\*     arg_to_proto(arg, arg_function_language=..., out=msg.func.args.add())
EncodeOperands(args, arg_function_language, m) ==
    IF args = <<>> THEN Wrote(m)
    ELSE LET r == arg_to_proto(Head(args), arg_function_language, UnsetArg)
             m1 == [m EXCEPT !.args = Append(@, r.msg)]
         IN IF r.err # NoError THEN Raised(m1, r.err)
            ELSE EncodeOperands(Tail(args), arg_function_language, m1)

\* A mutant: no check_support before the operator tag is written.
_arg_func_to_proto_unchecked(v, arg_function_language, m) ==
    IF arg_function_language \notin SUPPORTED_LANGUAGES
    THEN Raised(m, UnrecognizedLanguage)
    ELSE CASE v.tag = "sym" -> Wrote(ArgSymbol(v.name))
           [] v.tag = "func" /\ v.type \in {"add", "mul", "pow"} ->
                EncodeOperands(v.args, arg_function_language, SetFuncType(m, v.type))
           [] OTHER -> Raised(m, UnrecognizedArgType)

_arg_func_to_proto(v, arg_function_language, m) ==
    IF arg_function_language \notin SUPPORTED_LANGUAGES
    THEN Raised(m, UnrecognizedLanguage)
    ELSE CASE v.tag = "sym" -> Wrote(ArgSymbol(v.name))
           [] v.tag = "func" /\ v.type \in {"add", "mul", "pow"} ->
                IF ~check_support(v.type, arg_function_language)
                THEN Raised(m, UnsupportedOperator)
                ELSE EncodeOperands(v.args, arg_function_language,
                                    SetFuncType(m, v.type))
           [] OTHER -> Raised(m, UnrecognizedArgType)

arg_to_proto(v, arg_function_language, out) ==
    CASE v.tag = "num" -> Wrote(ArgFloat(v.twice))
      [] v.tag = "str" -> Wrote(ArgString(v.text))
      [] v.tag = "bools" -> Wrote(ExtendBoolValues(out, v.values))
      [] OTHER -> _arg_func_to_proto(v, arg_function_language, out)

\* A mutant: float_arg_to_proto takes strings and bool lists as arg_to_proto
\* does.
float_arg_to_proto_any_value(v, arg_function_language, out) ==
    CASE v.tag = "num" -> Wrote(FloatArgFloat(v.twice))
      [] OTHER -> arg_to_proto(v, arg_function_language, out)

float_arg_to_proto(v, arg_function_language, out) ==
    CASE v.tag = "num" -> Wrote(FloatArgFloat(v.twice))
      [] OTHER -> _arg_func_to_proto(v, arg_function_language, out)

----------------------------------------------------------------------------
(* Decoding: arg_from_proto, float_arg_from_proto, _arg_func_from_proto *)

\* A mutant: every number is truncated to an integer.
NormalizeTruncating(twice) == Num("int", 2 * (twice \div 2))

\* math.floor, math.ceil and the builtin round (ties go to the even integer)
\* of the number twice / 2.
math_floor(twice) == twice \div 2
math_ceil(twice) == -((-twice) \div 2)
round(twice) ==
    IF twice % 2 = 0 THEN twice \div 2
    ELSE IF (twice \div 2) % 2 = 0 THEN twice \div 2 ELSE (twice \div 2) + 1

\* arg_from_proto (arg_func_langs.py:279-280):
\*     if math.ceil(result) == math.floor(result): result = int(result)
Normalize(twice) ==
    IF math_ceil(twice) = math_floor(twice) THEN Num("int", twice)
    ELSE Num("float", twice)

\* A mutant: float_arg_from_proto never converts to int.
NormalizeRoundNever(twice) == Num("float", twice)

\* float_arg_from_proto (arg_func_langs.py:224-225):
\*     if round(result) == result: result = int(result)
NormalizeRound(twice) ==
    IF 2 * round(twice) = twice THEN Num("int", twice) ELSE Num("float", twice)

\* sympy.Add(*operands), sympy.Mul(*operands): the n-ary node over the operands
\* in order.
sympy_Add(operands) == Func("add", operands)
sympy_Mul(operands) == Func("mul", operands)
\* sympy.Pow(b, e, evaluate=None): two operands build the node, a third
\* positional one lands in `evaluate`, any other count is a TypeError.
sympy_Pow(operands) ==
    IF Len(operands) \in {2, 3} THEN Func("pow", SubSeq(operands, 1, 2))
    ELSE Error(PyTypeError)

\* What a list comprehension over the operands gives: the decoded operands in
\* order (`err` = "ok"), or the first error raised.
Decoded(vals) == [err |-> NoError, vals |-> vals]
DecodeFailed(kind) == [err |-> kind, vals |-> <<>>]

RECURSIVE arg_from_proto(_, _, _)
RECURSIVE DecodeOperands(_, _, _)

\* A mutant: the operands are decoded with no name required, and one that
\* decodes to None is left out.
RECURSIVE DecodeOperandsSkippingUnset(_, _, _)
DecodeOperandsSkippingUnset(args, arg_function_language, name) ==
    IF args = <<>> THEN Decoded(<<>>)
    ELSE LET first == arg_from_proto(Head(args), arg_function_language, None)
             rest == DecodeOperandsSkippingUnset(Tail(args), arg_function_language, name)
         IN IF IsError(first) THEN DecodeFailed(first.kind)
            ELSE IF rest.err # NoError THEN rest
            ELSE IF first = NoValue THEN rest
            ELSE Decoded(<<first>> \o rest.vals)

\* [arg_from_proto(a, arg_function_language=..., required_arg_name=name)
\*  for a in func.args]
DecodeOperands(args, arg_function_language, name) ==
    IF args = <<>> THEN Decoded(<<>>)
    ELSE LET first == arg_from_proto(Head(args), arg_function_language, name)
         IN IF IsError(first) THEN DecodeFailed(first.kind)
            ELSE LET rest == DecodeOperands(Tail(args), arg_function_language, name)
                 IN IF rest.err # NoError THEN rest
                    ELSE Decoded(<<first>> \o rest.vals)

\* A mutant: the tier's permitted set is not consulted on decode.
_arg_func_from_proto_unchecked(func, arg_function_language, required_arg_name) ==
    IF arg_function_language \notin SUPPORTED_LANGUAGES
    THEN Error(UnrecognizedLanguage)
    ELSE CASE func.type = "add" ->
                LET ops == DecodeOperands(func.args, arg_function_language,
                                          "An addition argument")
                IN IF ops.err # NoError THEN Error(ops.err) ELSE sympy_Add(ops.vals)
           [] func.type = "mul" ->
                LET ops == DecodeOperands(func.args, arg_function_language,
                                          "A multiplication argument")
                IN IF ops.err # NoError THEN Error(ops.err) ELSE sympy_Mul(ops.vals)
           [] func.type = "pow" ->
                LET ops == DecodeOperands(func.args, arg_function_language,
                                          "A power argument")
                IN IF ops.err # NoError THEN Error(ops.err) ELSE sympy_Pow(ops.vals)
           [] OTHER -> Error(UnrecognizedFunction)

\* `func` is the ArgFunction of a record whose oneof selects func.
\* SUPPORTED_FUNCTIONS_FOR_LANGUAGE.get(language) is None exactly for a
\* language that is no key of the dict.
_arg_func_from_proto(func, arg_function_language, required_arg_name) ==
    IF arg_function_language \notin SUPPORTED_LANGUAGES
    THEN Error(UnrecognizedLanguage)
    ELSE IF func.type \notin SUPPORTED_FUNCTIONS_FOR_LANGUAGE(arg_function_language)
    THEN Error(UnrecognizedFunction)
    ELSE CASE func.type = "add" ->
                LET ops == DecodeOperands(func.args, arg_function_language,
                                          "An addition argument")
                IN IF ops.err # NoError THEN Error(ops.err) ELSE sympy_Add(ops.vals)
           [] func.type = "mul" ->
                LET ops == DecodeOperands(func.args, arg_function_language,
                                          "A multiplication argument")
                IN IF ops.err # NoError THEN Error(ops.err) ELSE sympy_Mul(ops.vals)
           [] func.type = "pow" ->
                LET ops == DecodeOperands(func.args, arg_function_language,
                                          "A power argument")
                IN IF ops.err # NoError THEN Error(ops.err) ELSE sympy_Pow(ops.vals)
           [] OTHER -> NoValue

arg_from_proto(arg_proto, arg_function_language, required_arg_name) ==
    LET which == arg_proto.which
        \* lines 300-306: what follows the three `if which == ...` blocks
        missing == IF required_arg_name # None
                   THEN Error(MissingRequiredArgument) ELSE NoValue
    IN CASE which = "arg_value" ->
              LET which_val == arg_proto.which_val
              IN CASE which_val \in {"float_value", "double_value"} ->
                        Normalize(arg_proto.twice)
                   [] which_val = "bool_values" -> Bools(arg_proto.values)
                   [] which_val = "string_value" -> Str(arg_proto.text)
                   [] OTHER -> Error(UnrecognizedArgumentShape)
         [] which = "symbol" -> Sym(arg_proto.name)
         [] which = "func" ->
              LET func == _arg_func_from_proto(arg_proto, arg_function_language,
                                               required_arg_name)
              IN IF func # NoValue THEN func ELSE missing
         [] OTHER -> missing

\* A mutant: an unset FloatArg gives None also when a name is required.
float_arg_from_proto_lenient(arg_proto, arg_function_language, required_arg_name) ==
    LET which == arg_proto.which
    IN CASE which = "float_value" -> NormalizeRound(arg_proto.twice)
         [] which = "symbol" -> Sym(arg_proto.name)
         [] which = "func" ->
              _arg_func_from_proto(arg_proto, arg_function_language,
                                   required_arg_name)
         [] which = "unset" -> NoValue
         [] OTHER -> Error(UnrecognizedArgumentShape)

float_arg_from_proto(arg_proto, arg_function_language, required_arg_name) ==
    LET which == arg_proto.which
    IN CASE which = "float_value" -> NormalizeRound(arg_proto.twice)
         [] which = "symbol" -> Sym(arg_proto.name)
         [] which = "func" ->
              LET func == _arg_func_from_proto(arg_proto, arg_function_language,
                                               required_arg_name)
              IN IF func = NoValue /\ required_arg_name # None
                 THEN Error(MissingRequiredArgument)
                 ELSE func
         [] which = "unset" ->
              IF required_arg_name # None
              THEN Error(MissingRequiredArgument) ELSE NoValue
         [] OTHER -> Error(UnrecognizedArgumentShape)

----------------------------------------------------------------------------
(* The inputs the model draws *)

\* Every tier of the table, the wildcard None, and a language that is no key
\* of the table.
Languages == SUPPORTED_LANGUAGES \cup {"qasm"}

Numbers ==
    {Num("float", t) : t \in 0..MaxTwice}
        \cup {Num("int", t) : t \in {u \in 0..MaxTwice : IsIntegral(u)}}
Symbols == {Sym("x"), Sym("y")}
Strings == {Str(""), Str("x")}
BoolLists == UNION {[1..n -> BOOLEAN] : n \in 0..MaxBools}

\* The operands of sympy expressions: numbers and symbols.
ExprLeaves == {Num("int", 2), Num("float", 1), Sym("x")}

\* The sympy expressions with exactly n Add/Mul/Pow nodes.
RECURSIVE ExprTrees(_)
ExprTrees(n) ==
    IF n = 0 THEN ExprLeaves
    ELSE UNION {
            {Func(op, <<a, b>>) : a \in ExprTrees(i), b \in ExprTrees(n - 1 - i)}
            : op \in {"add", "mul", "pow"}, i \in 0..(n - 1)}

Expressions == UNION {ExprTrees(n) : n \in 1..MaxFuncNodes}

Values ==
    Numbers \cup Symbols \cup Strings \cup {Bools(b) : b \in BoolLists}
        \cup Expressions \cup {Other}

\* The operand records of wire function trees: a number, a symbol, and a
\* record with nothing set.
WireLeaves == {ArgFloat(2), ArgSymbol("x"), UnsetArg}

\* ArgFunction.type is a free string: the three known operators and one the
\* table does not know.
WireOperators == {"add", "mul", "pow", "sin"}

\* The wire function records with exactly n function nodes.
RECURSIVE WireTrees(_)
WireTrees(n) ==
    IF n = 0 THEN WireLeaves
    ELSE UNION {
            {ArgFunc(op, <<a, b>>) : a \in WireTrees(i), b \in WireTrees(n - 1 - i)}
            : op \in WireOperators, i \in 0..(n - 1)}

WireFunctions == UNION {WireTrees(n) : n \in 1..MaxFuncNodes}

\* Arg records
WireArgs ==
    {ArgFloat(t) : t \in 0..MaxTwice} \cup {ArgDouble(t) : t \in 0..MaxTwice}
        \cup {ArgBools(b) : b \in BoolLists} \cup {ArgString("x"), ArgEmptyValue}
        \cup {ArgSymbol("x"), UnsetArg} \cup WireFunctions

\* FloatArg records
WireFloatArgs ==
    {FloatArgFloat(t) : t \in 0..MaxTwice}
        \cup {ArgSymbol("x"), UnsetArg} \cup WireFunctions

RequiredNames == {None, "theta"}

----------------------------------------------------------------------------
(* The codec: one call of an encoder on a drawn value, optionally followed  *)
(* by the matching decoder on what it wrote; or one call of a decoder on a  *)
(* drawn wire record.                                                       *)

Ok == [tag |-> "ok"]

\* Python's None where a list is expected, and a list that was passed.
NoList == [present |-> FALSE]
List(items) == [present |-> TRUE, items |-> items]

\* What the variables of the other components hold while one is exercised.
CodecIdle == value = NoValue /\ required = None /\ msg = UnsetArg
InferIdle == program = <<>>
MoreIdle == tasks = <<>> /\ table = <<>> /\ log = <<>> /\ engine = NoValue
OpIdle ==
    /\ deserializer = NoValue
    /\ proto = NoValue
    /\ constants = NoList
    /\ deserialized_constants = NoList
    /\ reads = {}

Init ==
    /\ call = "init"
    /\ ret = NoValue
    /\ MoreIdle
    /\ InferIdle
    /\ OpIdle
    /\ lang \in Languages
    /\ \/ /\ value \in Values
          /\ msg = UnsetArg
          /\ required = None
       \/ /\ value = NoValue
          /\ msg \in WireArgs \cup WireFloatArgs
          /\ required \in RequiredNames

Call_arg_to_proto ==
    /\ call = "init"
    /\ value # NoValue
    /\ LET r == arg_to_proto(value, lang, msg)
       IN /\ msg' = r.msg
          /\ ret' = IF r.err = NoError THEN Ok ELSE Error(r.err)
    /\ call' = "arg_to_proto"
    /\ UNCHANGED <<moreVars, value, lang, required, program, opVars>>

Call_float_arg_to_proto ==
    /\ call = "init"
    /\ value # NoValue
    /\ LET r == float_arg_to_proto(value, lang, msg)
       IN /\ msg' = r.msg
          /\ ret' = IF r.err = NoError THEN Ok ELSE Error(r.err)
    /\ call' = "float_arg_to_proto"
    /\ UNCHANGED <<moreVars, value, lang, required, program, opVars>>

Call_arg_from_proto ==
    /\ \/ call = "init" /\ value = NoValue /\ msg.which # "float_value"
       \/ call = "arg_to_proto" /\ ret = Ok
    /\ ret' = arg_from_proto(msg, lang, required)
    /\ call' = "arg_from_proto"
    /\ UNCHANGED <<moreVars, lang, codecVars, program, opVars>>

Call_float_arg_from_proto ==
    /\ \/ call = "init" /\ value = NoValue /\ msg.which # "arg_value"
       \/ call = "float_arg_to_proto" /\ ret = Ok
    /\ ret' = float_arg_from_proto(msg, lang, required)
    /\ call' = "float_arg_from_proto"
    /\ UNCHANGED <<moreVars, lang, codecVars, program, opVars>>

Next ==
    \/ Call_arg_to_proto
    \/ Call_float_arg_to_proto
    \/ Call_arg_from_proto
    \/ Call_float_arg_from_proto

Spec == Init /\ [][Next]_vars

----------------------------------------------------------------------------
(* Claims about the codec, checked under Spec *)

\* The three tiers NONE < LINEAR < EXP.
Tiers == {LANGUAGE_ORDER[i] : i \in 1..Len(LANGUAGE_ORDER)}

\* The operators the spec permits per tier (spec section 3, Language Tier).
Permitted(tier) ==
    CASE tier = "" -> {}
      [] tier = "linear" -> {"add", "mul"}
      [] tier = "exp" -> {"add", "mul", "pow"}

RECURSIVE WireHasUnpermitted(_, _)
WireHasUnpermitted(arg, tier) ==
    /\ arg.which = "func"
    /\ \/ arg.type \notin Permitted(tier)
       \/ \E i \in 1..Len(arg.args) : WireHasUnpermitted(arg.args[i], tier)

\* The records a decoder meets, in the order it meets them (depth first,
\* operands left to right), each marked "bad" (a function node whose operator
\* the tier does not permit), "unset" (a record with nothing set) or "fine".
RECURSIVE PreOrder(_, _)
RECURSIVE PreOrderAll(_, _)
PreOrder(arg, tier) ==
    CASE arg.which = "unset" -> <<"unset">>
      [] arg.which = "func" ->
           IF arg.type \notin Permitted(tier) THEN <<"bad">>
           ELSE <<"fine">> \o PreOrderAll(arg.args, tier)
      [] OTHER -> <<"fine">>
PreOrderAll(args, tier) ==
    IF args = <<>> THEN <<>>
    ELSE PreOrder(Head(args), tier) \o PreOrderAll(Tail(args), tier)

\* The mark of the first record that is not "fine".
FirstFailure(arg, tier) ==
    LET marks == PreOrder(arg, tier)
        bad == {i \in 1..Len(marks) : marks[i] # "fine"}
    IN IF bad = {} THEN "fine"
       ELSE marks[CHOOSE i \in bad : \A j \in bad : i <= j]

\* A decoder ran on a drawn wire function record under one of the three tiers.
DecodedWireFunction ==
    /\ call \in {"arg_from_proto", "float_arg_from_proto"}
    /\ value = NoValue
    /\ lang \in Tiers
    /\ msg.which = "func"

\* C2 as stated: a wire function record with an unpermitted operator at any
\* depth always fails with UnrecognizedFunction.
C2_Original ==
    (DecodedWireFunction /\ WireHasUnpermitted(msg, lang))
        => ret = Error(UnrecognizedFunction)

\* C2 amended: such a record never decodes to a value; the error is
\* UnrecognizedFunction unless an unset operand record is decoded before the
\* first unpermitted function node, and then it is MissingRequiredArgument.
C2_Amended ==
    (DecodedWireFunction /\ WireHasUnpermitted(msg, lang))
        => ret = Error(IF FirstFailure(msg, lang) = "unset"
                       THEN MissingRequiredArgument
                       ELSE UnrecognizedFunction)

\* C2's case: pow nested under add was decoded under 'linear' and rejected.
C2_Witness ==
    /\ call = "arg_from_proto"
    /\ value = NoValue
    /\ lang = "linear"
    /\ msg = ArgFunc("add", <<ArgSymbol("x"),
                              ArgFunc("pow", <<ArgSymbol("x"), ArgFloat(2)>>)>>)
    /\ ret = Error(UnrecognizedFunction)

\* Some Add/Mul/Pow node of an expression, at any depth, has an operator that
\* the language does not permit.
RECURSIVE ExprHasUnpermitted(_, _)
ExprHasUnpermitted(v, language) ==
    /\ v.tag = "func"
    /\ \/ v.type \notin Permitted(language)
       \/ \E i \in 1..Len(v.args) : ExprHasUnpermitted(v.args[i], language)

\* The record the spec describes for an expression: each node's operator tag
\* over its operands' records in the original order; numbers in the numeric
\* field, symbols in the symbol field.
RECURSIVE Mirror(_)
Mirror(v) ==
    CASE v.tag = "num" -> ArgFloat(v.twice)
      [] v.tag = "sym" -> ArgSymbol(v.name)
      [] v.tag = "func" ->
           ArgFunc(v.type, [i \in 1..Len(v.args) |-> Mirror(v.args[i])])

\* The same for the float-only shape, whose own numeric field differs.
FloatMirror(v) == IF v.tag = "num" THEN FloatArgFloat(v.twice) ELSE Mirror(v)

\* C3: encoding an expression built from numbers, symbols and add/mul/pow
\* under a tier fails with UnsupportedOperator when some node's operator is
\* not permitted by the tier, and otherwise writes the mirrored record.
C3_EncodeRejection ==
    (/\ call \in {"arg_to_proto", "float_arg_to_proto"}
     /\ value.tag \in {"num", "sym", "func"}
     /\ lang \in Tiers)
        => IF ExprHasUnpermitted(value, lang)
           THEN ret = Error(UnsupportedOperator)
           ELSE /\ ret = Ok
                /\ msg = IF call = "arg_to_proto"
                         THEN Mirror(value) ELSE FloatMirror(value)

\* C3's case: a pow nested as the second operand of a mul was rejected under
\* 'linear' by float_arg_to_proto.
C3_Witness ==
    /\ call = "float_arg_to_proto"
    /\ lang = "linear"
    /\ value = Func("mul", <<Sym("x"), Func("pow", <<Sym("x"), Num("int", 2)>>)>>)
    /\ ret = Error(UnsupportedOperator)

\* C4: when arg_to_proto succeeded under tier A, it succeeds under every tier
\* B at or above A in LANGUAGE_ORDER and writes the same record.
C4_TierMonotone ==
    (call = "arg_to_proto" /\ ret = Ok /\ lang \in Tiers)
        => \A B \in Tiers :
              LanguageIndex(lang) <= LanguageIndex(B)
                  => arg_to_proto(value, B, UnsetArg) = Wrote(msg)

\* C4's case: an add over a mul was encoded under 'linear' (and 'exp' lies
\* above it).
C4_Witness ==
    /\ call = "arg_to_proto"
    /\ ret = Ok
    /\ lang = "linear"
    /\ value = Func("add", <<Func("mul", <<Num("int", 2), Sym("x")>>), Sym("x")>>)

----------------------------------------------------------------------------
(* Tier inference: _infer_function_language_from_circuit *)

\* A wire Operation as far as the inference reads it: its `args` map, a
\* function from argument names to Arg records.  A Moment is a sequence of
\* operations, a Circuit a sequence of moments.

\* The generator's yields, collected as the set the caller builds from them.
\* A mutant: the operands of add and mul are not visited.
RECURSIVE _function_languages_from_arg_shallow(_)
_function_languages_from_arg_shallow(arg_proto) ==
    IF arg_proto.which # "func" THEN {}
    ELSE (IF arg_proto.type \in {"add", "mul"} THEN {"linear"} ELSE {})
            \cup
         (IF arg_proto.type \in {"pow"}
          THEN {"exp"} \cup UNION {_function_languages_from_arg_shallow(arg_proto.args[i])
                                   : i \in 1..Len(arg_proto.args)}
          ELSE {})

\* A mutant: pow yields 'linear'.
RECURSIVE _function_languages_from_arg_pow_as_linear(_)
_function_languages_from_arg_pow_as_linear(arg_proto) ==
    IF arg_proto.which # "func" \/ arg_proto.type \notin {"add", "mul", "pow"} THEN {}
    ELSE {"linear"} \cup UNION {_function_languages_from_arg_pow_as_linear(arg_proto.args[i])
                                : i \in 1..Len(arg_proto.args)}

RECURSIVE _function_languages_from_arg(_)
_function_languages_from_arg(arg_proto) ==
    IF arg_proto.which # "func" THEN {}
    ELSE (IF arg_proto.type \in {"add", "mul"}
          THEN {"linear"} \cup UNION {_function_languages_from_arg(arg_proto.args[i])
                                      : i \in 1..Len(arg_proto.args)}
          ELSE {})
            \cup
         (IF arg_proto.type \in {"pow"}
          THEN {"exp"} \cup UNION {_function_languages_from_arg(arg_proto.args[i])
                                   : i \in 1..Len(arg_proto.args)}
          ELSE {})

_function_languages_from_operation(op) ==
    UNION {_function_languages_from_arg(op.args[k]) : k \in DOMAIN op.args}

_infer_function_language_from_circuit(circuit) ==
    _max_lang(UNION {UNION {_function_languages_from_operation(circuit[m][o])
                            : o \in 1..Len(circuit[m])}
                     : m \in 1..Len(circuit)})

\* The argument records of the programs drawn: trees over a symbol and a number.
InferLeaves == {ArgSymbol("x"), ArgFloat(2)}

\* The wire records over `leaves` with exactly n function nodes.
RECURSIVE WireTreesOver(_, _)
WireTreesOver(leaves, n) ==
    IF n = 0 THEN leaves
    ELSE UNION {
            {ArgFunc(op, <<a, b>>) : a \in WireTreesOver(leaves, i),
                                     b \in WireTreesOver(leaves, n - 1 - i)}
            : op \in WireOperators, i \in 0..(n - 1)}

\* One argument record, and pairs of them, with at most MaxFuncNodes function
\* nodes in all.
InferArgs == UNION {WireTreesOver(InferLeaves, n) : n \in 0..MaxFuncNodes}
InferArgPairs ==
    UNION {UNION {WireTreesOver(InferLeaves, i) \X WireTreesOver(InferLeaves, n - i)
                  : i \in 0..n}
           : n \in 0..MaxFuncNodes}

WireOp(args) == [args |-> args]

\* Argument records with operand records that have nothing set.
InferArgsWithUnset ==
    UNION {WireTreesOver({ArgSymbol("x"), UnsetArg}, n) : n \in 0..MaxFuncNodes}

\* No moment; an operation without arguments; one argument; two arguments of
\* one operation; two operations of one moment; two moments.
Programs ==
    {<<>>, << <<WireOp(<<>>)>> >>}
        \cup {<< <<WireOp([a |-> t])>> >> : t \in InferArgs \cup InferArgsWithUnset}
        \cup {<< <<WireOp([a |-> f[1], b |-> f[2]])>> >> : f \in InferArgPairs}
        \cup {<< <<WireOp([a |-> f[1]]), WireOp([a |-> f[2]])>> >> : f \in InferArgPairs}
        \cup {<< <<WireOp([a |-> f[1]])>>, <<WireOp([a |-> f[2]])>> >> : f \in InferArgPairs}

InitInfer ==
    /\ call = "init"
    /\ ret = NoValue
    /\ MoreIdle
    /\ lang = ""
    /\ CodecIdle
    /\ OpIdle
    /\ program \in Programs

Call_infer_function_language_from_circuit ==
    /\ call = "init"
    /\ ret' = [tag |-> "language",
               language |-> _infer_function_language_from_circuit(program)]
    /\ call' = "_infer_function_language_from_circuit"
    /\ UNCHANGED <<moreVars, lang, codecVars, program, opVars>>

NextInfer == Call_infer_function_language_from_circuit

SpecInfer == InitInfer /\ [][NextInfer]_vars

\* Every argument record of a program.
ProgramArgs(circuit) ==
    UNION {UNION {{circuit[m][o].args[k] : k \in DOMAIN circuit[m][o].args}
                  : o \in 1..Len(circuit[m])}
           : m \in 1..Len(circuit)}

\* The operator tags of all function records of an argument record, at every
\* nesting depth.
RECURSIVE FunctionTypes(_)
FunctionTypes(arg) ==
    IF arg.which # "func" THEN {}
    ELSE {arg.type} \cup UNION {FunctionTypes(arg.args[i]) : i \in 1..Len(arg.args)}

\* The same, not looking inside a function record whose operator is none of
\* add, mul and pow.
RECURSIVE KnownFunctionTypes(_)
KnownFunctionTypes(arg) ==
    IF arg.which # "func" \/ arg.type \notin {"add", "mul", "pow"} THEN {}
    ELSE {arg.type} \cup UNION {KnownFunctionTypes(arg.args[i]) : i \in 1..Len(arg.args)}

ProgramFunctionTypes(circuit) == UNION {FunctionTypes(a) : a \in ProgramArgs(circuit)}
ProgramKnownFunctionTypes(circuit) ==
    UNION {KnownFunctionTypes(a) : a \in ProgramArgs(circuit)}

Inferred == call = "_infer_function_language_from_circuit"

\* C5 as stated: '' without function records, 'linear' when all function
\* records at every depth are add or mul, 'exp' when any function record at
\* any depth is pow.
C5_Original ==
    Inferred =>
        LET types == ProgramFunctionTypes(program)
        IN /\ types = {} => ret.language = ""
           /\ (types # {} /\ types \subseteq {"add", "mul"}) => ret.language = "linear"
           /\ "pow" \in types => ret.language = "exp"

\* C5 amended: the inference does not look inside a function record whose
\* operator is none of add, mul and pow.  Counting only the function records
\* it visits: '' when there is none, 'linear' when all are add or mul, 'exp'
\* when any is pow.
C5_Amended ==
    Inferred =>
        LET types == ProgramKnownFunctionTypes(program)
        IN /\ types = {} => ret.language = ""
           /\ (types # {} /\ types \subseteq {"add", "mul"}) => ret.language = "linear"
           /\ "pow" \in types => ret.language = "exp"

\* C5's case: a pow nested in the second operand of a mul, in the second of
\* two moments, was inferred as 'exp'.
C5_Witness ==
    /\ Inferred
    /\ Len(program) = 2
    /\ program[1][1].args.a = ArgSymbol("x")
    /\ program[2][1].args.a =
          ArgFunc("mul", <<ArgFloat(2), ArgFunc("pow", <<ArgSymbol("x"), ArgFloat(2)>>)>>)
    /\ ret.language = "exp"

----------------------------------------------------------------------------
(* Python lists and dicts, as the deserializers use them *)

\* A dict: a function from its keys to their values.
EmptyDict == [k \in {} |-> k]
\* d[k] = v
DictSet(d, k, v) == [x \in DOMAIN d \cup {k} |-> IF x = k THEN v ELSE d[x]]

\* items[index]: Python's subscript on a list, which counts a negative index
\* from the end.  The zero-based position read, or -1 for an IndexError.
PyPosition(items, index) ==
    IF 0 <= index /\ index < Len(items) THEN index
    ELSE IF index < 0 /\ -Len(items) <= index THEN Len(items) + index
    ELSE -1

\* bool(v): Python's truth value of a default.
Truthy(v) ==
    CASE v.tag = "none" -> FALSE
      [] v.tag = "num" -> v.twice # 0
      [] v.tag = "bool" -> v.b
      [] v.tag = "str" -> v.text # ""
      [] v.tag = "bools" -> v.values # <<>>
      [] OTHER -> TRUE

PyBool(b) == [tag |-> "bool", b |-> b]

\* Errors of the deserializers, named after the spec's taxonomy:
\*   op_deserializer.py:257
MissingConstantContext == "MissingConstantContext"
\*   op_deserializer.py:262
ConstantIndexOutOfRange == "ConstantIndexOutOfRange"
\*   op_deserializer.py:269
WrongConstantKind == "WrongConstantKind"
\*   op_deserializer.py:304, 312
InvalidMapEntry == "InvalidMapEntry"
\*   op_deserializer.py:186
MissingConstantTable == "MissingConstantTable"
\*   an IndexError raised by a list subscript out of range
PyIndexError == "IndexError"

----------------------------------------------------------------------------
(* CircuitOpDeserializer.from_proto *)

\* The values a resolved constant may be.
FrozenCircuit(id) == [kind |-> "FrozenCircuit", id |-> id]
MutableCircuit(id) == [kind |-> "Circuit", id |-> id]
TokenString(text) == [kind |-> "str", text |-> text]
PyNone == [kind |-> "NoneType"]

\* v2.program_pb2.Constant: a string (a calibration token) or a circuit.
ConstantString(text) == [which |-> "string_value", string_value |-> text]
ConstantCircuit(id) == [which |-> "circuit_value", id |-> id]
ConstantUnset == [which |-> "const_unset"]

\* v2.program_pb2.RepetitionSpecification
RepUnset == [which |-> "unset"]
RepCount(n) == [which |-> "repetition_count", repetition_count |-> n]
RepIds(ids) == [which |-> "repetition_ids", ids |-> ids]

\* v2.program_pb2.CircuitOperation
CircuitProto(index, rep, qubit_map, measurement_key_map, arg_map) ==
    [circuit_constant_index |-> index,
     repetition_specification |-> rep,
     qubit_map |-> qubit_map,
     measurement_key_map |-> measurement_key_map,
     arg_map |-> arg_map]

\* v2.qubit_from_proto_id(id)
qubit_from_proto_id(id) == [qubit |-> id]

\* {f(entry.key): g(entry.value) for entry in entries}: a later entry with an
\* equal key replaces the earlier one.
RECURSIVE DictOfEntries(_, _)
DictOfEntries(pairs, d) ==
    IF pairs = <<>> THEN d
    ELSE DictOfEntries(Tail(pairs), DictSet(d, Head(pairs)[1], Head(pairs)[2]))

\* The arg_map comprehension (lines 293-300): each entry's key, then its
\* value, decoded with no required_arg_name; the first error ends it, and a
\* key that is a list cannot be hashed.
RECURSIVE DecodeArgMap(_, _, _)
DecodeArgMap(entries, arg_function_language, d) ==
    IF entries = <<>> THEN [err |-> NoError, dict |-> d]
    ELSE LET k == arg_from_proto(Head(entries).key, arg_function_language, None)
             v == arg_from_proto(Head(entries).value, arg_function_language, None)
         IN IF IsError(k) THEN [err |-> k.kind, dict |-> d]
            ELSE IF IsError(v) THEN [err |-> v.kind, dict |-> d]
            ELSE IF k.tag = "bools" THEN [err |-> PyTypeError, dict |-> d]
            ELSE DecodeArgMap(Tail(entries), arg_function_language, DictSet(d, k, v))

\* What from_proto gives: what it returns or raises, and the positions of
\* deserialized_constants it read on the way.
Outcome(r, positions) == [ret |-> r, reads |-> positions]

\* A mutant: the explicit ids are counted but not handed on.
RepetitionsOfIdsDropped(rs) ==
    CASE rs.which = "repetition_count" ->
            [repetitions |-> rs.repetition_count, rep_ids |-> NoList]
      [] rs.which = "repetition_ids" ->
            [repetitions |-> Len(rs.ids), rep_ids |-> NoList]
      [] OTHER -> [repetitions |-> 1, rep_ids |-> NoList]

\* lines 274-283: rep_ids and repetitions from the repetition_value oneof.
RepetitionsOf(rs) ==
    CASE rs.which = "repetition_count" ->
            [repetitions |-> rs.repetition_count, rep_ids |-> NoList]
      [] rs.which = "repetition_ids" ->
            [repetitions |-> Len(rs.ids), rep_ids |-> List(rs.ids)]
      [] OTHER -> [repetitions |-> 1, rep_ids |-> NoList]

\* A mutant: the qubit map is applied to the circuit in place.
CircuitOp_build_remapping_circuit(p, arg_function_language, circuit, position) ==
    Outcome([tag |-> "CircuitOperation",
             circuit |-> [kind |-> circuit.kind, id |-> circuit.id,
                          qubit_map |-> p.qubit_map],
             repetitions |-> RepetitionsOf(p.repetition_specification).repetitions,
             qubit_map |-> EmptyDict,
             measurement_key_map |-> EmptyDict,
             param_resolver |-> EmptyDict,
             repetition_ids |-> RepetitionsOf(p.repetition_specification).rep_ids],
            {position})

\* lines 274-325, once the circuit is in hand
CircuitOp_build(p, arg_function_language, circuit, position) ==
    LET rep == RepetitionsOf(p.repetition_specification)
        rep_ids == rep.rep_ids
        repetitions == rep.repetitions
        qubit_map ==
            DictOfEntries([i \in 1..Len(p.qubit_map) |->
                              <<qubit_from_proto_id(p.qubit_map[i].key),
                                qubit_from_proto_id(p.qubit_map[i].value)>>],
                          EmptyDict)
        measurement_key_map ==
            DictOfEntries([i \in 1..Len(p.measurement_key_map) |->
                              <<p.measurement_key_map[i].key,
                                p.measurement_key_map[i].value>>],
                          EmptyDict)
        decoded == DecodeArgMap(p.arg_map, arg_function_language, EmptyDict)
        arg_map == decoded.dict
    IN IF decoded.err # NoError THEN Outcome(Error(decoded.err), {position})
       ELSE IF \E k \in DOMAIN arg_map : k.tag \notin {"str", "sym"}
       THEN Outcome(Error(InvalidMapEntry), {position})
       ELSE IF \E k \in DOMAIN arg_map : arg_map[k].tag \notin {"str", "sym", "num"}
       THEN Outcome(Error(InvalidMapEntry), {position})
       ELSE Outcome([tag |-> "CircuitOperation",
                     circuit |-> circuit,
                     repetitions |-> repetitions,
                     qubit_map |-> qubit_map,
                     measurement_key_map |-> measurement_key_map,
                     param_resolver |-> arg_map,
                     repetition_ids |-> rep_ids],
                    {position})

\* A mutant: the kind of the resolved constant is not checked.
CircuitOp_from_proto_any_kind(p, arg_function_language, consts, resolved) ==
    IF ~consts.present \/ ~resolved.present
    THEN Outcome(Error(MissingConstantContext), {})
    ELSE IF Len(resolved.items) <= p.circuit_constant_index
    THEN Outcome(Error(ConstantIndexOutOfRange), {})
    ELSE LET position == PyPosition(resolved.items, p.circuit_constant_index)
         IN IF position = -1 THEN Outcome(Error(PyIndexError), {})
            ELSE CircuitOp_build(p, arg_function_language,
                                 resolved.items[position + 1], position)

\* A mutant: the index is checked before the two lists are.
CircuitOp_from_proto_index_first(p, arg_function_language, consts, resolved) ==
    IF resolved.present /\ Len(resolved.items) <= p.circuit_constant_index
    THEN Outcome(Error(ConstantIndexOutOfRange), {})
    ELSE IF ~consts.present \/ ~resolved.present
    THEN Outcome(Error(MissingConstantContext), {})
    ELSE LET position == PyPosition(resolved.items, p.circuit_constant_index)
         IN IF position = -1 THEN Outcome(Error(PyIndexError), {})
            ELSE LET circuit == resolved.items[position + 1]
                 IN IF circuit.kind # "FrozenCircuit"
                    THEN Outcome(Error(WrongConstantKind), {position})
                    ELSE CircuitOp_build(p, arg_function_language, circuit, position)

\* A mutant: an index equal to the length of the list passes the bound check.
CircuitOp_from_proto_bound_off_by_one(p, arg_function_language, consts, resolved) ==
    IF ~consts.present \/ ~resolved.present
    THEN Outcome(Error(MissingConstantContext), {})
    ELSE IF Len(resolved.items) < p.circuit_constant_index
    THEN Outcome(Error(ConstantIndexOutOfRange), {})
    ELSE LET position == PyPosition(resolved.items, p.circuit_constant_index)
         IN IF position = -1 THEN Outcome(Error(PyIndexError), {})
            ELSE LET circuit == resolved.items[position + 1]
                 IN IF circuit.kind # "FrozenCircuit"
                    THEN Outcome(Error(WrongConstantKind), {position})
                    ELSE CircuitOp_build(p, arg_function_language, circuit, position)

CircuitOp_from_proto(p, arg_function_language, consts, resolved) ==
    IF ~consts.present \/ ~resolved.present
    THEN Outcome(Error(MissingConstantContext), {})
    ELSE IF Len(resolved.items) <= p.circuit_constant_index
    THEN Outcome(Error(ConstantIndexOutOfRange), {})
    ELSE LET position == PyPosition(resolved.items, p.circuit_constant_index)
         IN IF position = -1 THEN Outcome(Error(PyIndexError), {})
            ELSE LET circuit == resolved.items[position + 1]
                 IN IF circuit.kind # "FrozenCircuit"
                    THEN Outcome(Error(WrongConstantKind), {position})
                    ELSE CircuitOp_build(p, arg_function_language, circuit, position)

----------------------------------------------------------------------------
(* GateOpDeserializer: DeserializingArg, _args_from_proto, from_proto *)

\* The dataclass DeserializingArg.  `default` is NoValue (Python's None) when
\* none is given; value_func is None or names one of the callables below.
DeserializingArg(serialized_name, constructor_arg_name, value_func, req, default) ==
    [serialized_name |-> serialized_name,
     constructor_arg_name |-> constructor_arg_name,
     value_func |-> value_func,
     required |-> req,
     default |-> default]

\* Two callables a deserializer may be given as value_func:
\*   "wrap"  = lambda x: (x,)      defined on every value, None included
\*   "tuple" = lambda x: tuple(x)  a TypeError on anything but a list or string
ApplyValueFunc(value_func, v) ==
    CASE value_func = "wrap" -> [tag |-> "tuple1", item |-> v]
      [] value_func = "tuple" ->
           IF v.tag = "bools" THEN [tag |-> "tuple", items |-> v.values]
           ELSE IF v.tag = "str" THEN [tag |-> "chars", text |-> v.text]
           ELSE Error(PyTypeError)

\* v2.program_pb2.Operation: qubits, the args map (a dict from names to Arg
\* records) and the token oneof.
NoToken == [which |-> "unset"]
TokenValue(text) == [which |-> "token_value", token_value |-> text]
TokenConstantIndex(i) == [which |-> "token_constant_index", token_constant_index |-> i]
GateProto(qubits, args, token) == [qubits |-> qubits, args |-> args, token |-> token]

\* proto.args[name]: reading a message-valued protobuf map at a key it does
\* not hold inserts an empty message under that key.
MapGet(p, name) ==
    IF name \in DOMAIN p.args THEN p
    ELSE [p EXCEPT !.args = DictSet(p.args, name, UnsetArg)]

\* The state of the loop of _args_from_proto: return_args, the proto (whose
\* map a read may grow) and the error raised, if any.
ArgsState(return_args, p, err) == [return_args |-> return_args, proto |-> p, err |-> err]

\* A mutant: a missing required argument is not reported.
ArgsStepNoRequiredCheck(arg, st, arg_function_language) ==
    IF arg.serialized_name \notin DOMAIN st.proto.args /\ Truthy(arg.default)
    THEN ArgsState(DictSet(st.return_args, arg.constructor_arg_name, arg.default),
                   st.proto, NoError)
    ELSE LET p1 == MapGet(st.proto, arg.serialized_name)
             decoded == arg_from_proto(p1.args[arg.serialized_name],
                                       arg_function_language, None)
             v == IF IsError(decoded) \/ arg.value_func = None THEN decoded
                  ELSE ApplyValueFunc(arg.value_func, decoded)
         IN IF IsError(v) THEN ArgsState(st.return_args, p1, v.kind)
            ELSE IF v # NoValue
            THEN ArgsState(DictSet(st.return_args, arg.constructor_arg_name, v),
                           p1, NoError)
            ELSE ArgsState(st.return_args, p1, NoError)

\* One iteration of `for arg in self._args` (lines 203-223).
ArgsStep(arg, st, arg_function_language) ==
    IF arg.serialized_name \notin DOMAIN st.proto.args /\ Truthy(arg.default)
    THEN ArgsState(DictSet(st.return_args, arg.constructor_arg_name, arg.default),
                   st.proto, NoError)
    ELSE IF arg.serialized_name \notin DOMAIN st.proto.args /\ arg.required
    THEN ArgsState(st.return_args, st.proto, MissingRequiredArgument)
    ELSE LET p1 == MapGet(st.proto, arg.serialized_name)
             decoded == arg_from_proto(p1.args[arg.serialized_name],
                                       arg_function_language,
                                       IF ~arg.required THEN None
                                       ELSE arg.serialized_name)
             v == IF IsError(decoded) \/ arg.value_func = None THEN decoded
                  ELSE ApplyValueFunc(arg.value_func, decoded)
         IN IF IsError(v) THEN ArgsState(st.return_args, p1, v.kind)
            ELSE IF v # NoValue
            THEN ArgsState(DictSet(st.return_args, arg.constructor_arg_name, v),
                           p1, NoError)
            ELSE ArgsState(st.return_args, p1, NoError)

RECURSIVE ArgsLoop(_, _, _)
ArgsLoop(args, st, arg_function_language) ==
    IF args = <<>> \/ st.err # NoError THEN st
    ELSE ArgsLoop(Tail(args), ArgsStep(Head(args), st, arg_function_language),
                  arg_function_language)

_args_from_proto(self, p, arg_function_language) ==
    ArgsLoop(self.args, ArgsState(EmptyDict, p, NoError), arg_function_language)

\* What GateOpDeserializer.from_proto gives: what it returns or raises, and
\* the proto as the call leaves it.
GateOutcome(r, p) == [ret |-> r, proto |-> p]

\* lines 182-195: the calibration token.  The tags to add, or the error raised.
TokenTags(self, p, consts) ==
    IF ~self.deserialize_tokens THEN [err |-> NoError, tags |-> <<>>]
    ELSE CASE p.token.which = "token_constant_index" ->
                IF ~consts.present \/ consts.items = <<>>
                THEN [err |-> MissingConstantTable, tags |-> <<>>]
                ELSE LET position == PyPosition(consts.items,
                                                p.token.token_constant_index)
                     IN IF position = -1 THEN [err |-> PyIndexError, tags |-> <<>>]
                        ELSE LET c == consts.items[position + 1]
                             IN [err |-> NoError,
                                 tags |-> <<[calibration_tag |->
                                               IF c.which = "string_value"
                                               THEN c.string_value ELSE ""]>>]
           [] p.token.which = "token_value" ->
                [err |-> NoError,
                 tags |-> <<[calibration_tag |-> p.token.token_value]>>]
           [] OTHER -> [err |-> NoError, tags |-> <<>>]

\* The gate constructor and op_wrapper are the caller's: the operation built
\* is recorded as the constructor's keyword arguments, the qubits and the tags.
GateOp_from_proto(self, p, arg_function_language, consts) ==
    LET qubits == [i \in 1..Len(p.qubits) |-> qubit_from_proto_id(p.qubits[i])]
        st == _args_from_proto(self, p, arg_function_language)
        args == IF self.num_qubits_param # None
                THEN DictSet(st.return_args, self.num_qubits_param,
                             Num("int", 2 * Len(qubits)))
                ELSE st.return_args
        token == TokenTags(self, st.proto, consts)
    IN IF st.err # NoError THEN GateOutcome(Error(st.err), st.proto)
       ELSE IF token.err # NoError THEN GateOutcome(Error(token.err), st.proto)
       ELSE GateOutcome([tag |-> "GateOperation",
                         gate |-> [id |-> self.serialized_gate_id, kwargs |-> args],
                         qubits |-> qubits,
                         tags |-> token.tags],
                        st.proto)

----------------------------------------------------------------------------
(* The deserializers: one call of from_proto on drawn arguments *)

\* Lists of constants hold at most MaxConstants entries.
MaxConstants == 2
\* Repetition counts are 0..MaxIds, repetition id lists hold 0..MaxIds ids.
MaxIds == 3
\* arg_map holds at most MaxMapEntries entries.
MaxMapEntries == 2

ResolvedValues ==
    {FrozenCircuit(1), FrozenCircuit(2), MutableCircuit(1), TokenString("tok"), PyNone}
ResolvedLists == UNION {[1..n -> ResolvedValues] : n \in 0..MaxConstants}

\* The Constant proto a resolved value came from.
RawOf(v) ==
    CASE v.kind \in {"FrozenCircuit", "Circuit"} -> ConstantCircuit(v.id)
      [] v.kind = "str" -> ConstantString(v.text)
      [] OTHER -> ConstantUnset

\* circuit_constant_index and token_constant_index are int32 fields.
Indices == (-(MaxConstants + 1))..(MaxConstants + 1)

RepSpecs ==
    {RepUnset} \cup {RepCount(n) : n \in 0..MaxIds}
        \cup {RepIds(ids) : ids \in UNION {[1..n -> {"a", "b", "c"}] : n \in 0..MaxIds}}

MapEntry(k, v) == [key |-> k, value |-> v]
QubitMaps ==
    {<<>>, <<MapEntry("q0", "q1")>>, <<MapEntry("q0", "q1"), MapEntry("q0", "q2")>>}
MeasurementKeyMaps == {<<>>, <<MapEntry("m", "n")>>}
ArgMapKeys ==
    {ArgString("k"), ArgSymbol("x"), ArgFloat(2), ArgBools(<<TRUE>>), UnsetArg}
ArgMapValues ==
    {ArgString("v"), ArgSymbol("y"), ArgFloat(1), ArgBools(<<TRUE>>), UnsetArg,
     ArgFunc("add", <<ArgSymbol("x"), ArgFloat(2)>>)}
ArgMaps ==
    UNION {[1..n -> {MapEntry(k, v) : k \in ArgMapKeys, v \in ArgMapValues}]
           : n \in 0..MaxMapEntries}

\* A context in which every check passes.
GoodConstants == List(<<ConstantCircuit(1), ConstantString("tok")>>)
GoodResolved == List(<<FrozenCircuit(1), TokenString("tok")>>)

InitCircuitOp ==
    /\ call = "init"
    /\ ret = NoValue
    /\ MoreIdle
    /\ CodecIdle
    /\ InferIdle
    /\ deserializer = NoValue
    /\ reads = {}
    /\ \/ \* the two lists and the index vary
          /\ lang = ""
          /\ deserialized_constants \in {NoList} \cup {List(l) : l \in ResolvedLists}
          /\ constants \in
                {NoList,
                 IF deserialized_constants.present
                 THEN List([i \in 1..Len(deserialized_constants.items) |->
                               RawOf(deserialized_constants.items[i])])
                 ELSE List(<<>>)}
          /\ \E index \in Indices,
                arg_map \in {<<>>, <<MapEntry(ArgFloat(2), ArgString("v"))>>} :
                proto = CircuitProto(index, RepUnset, <<>>, <<>>, arg_map)
       \/ \* the repetition specification and the two plain maps vary
          /\ lang = ""
          /\ constants = GoodConstants
          /\ deserialized_constants = GoodResolved
          /\ \E rep \in RepSpecs, qubit_map \in QubitMaps,
                measurement_key_map \in MeasurementKeyMaps :
                proto = CircuitProto(0, rep, qubit_map, measurement_key_map, <<>>)
       \/ \* the argument map varies
          /\ lang \in {"", "linear"}
          /\ constants = GoodConstants
          /\ deserialized_constants = GoodResolved
          /\ \E arg_map \in ArgMaps :
                proto = CircuitProto(0, RepUnset, <<>>, <<>>, arg_map)

Call_CircuitOp_from_proto ==
    /\ call = "init"
    /\ LET o == CircuitOp_from_proto(proto, lang, constants, deserialized_constants)
       IN /\ ret' = o.ret
          /\ reads' = o.reads
    /\ call' = "CircuitOpDeserializer.from_proto"
    /\ UNCHANGED <<moreVars, lang, codecVars, program, deserializer, proto, constants,
                   deserialized_constants>>

NextCircuitOp == Call_CircuitOp_from_proto

SpecCircuitOp == InitCircuitOp /\ [][NextCircuitOp]_vars

\* The defaults a DeserializingArg may carry: none (Python's None), 5, 0,
\* True, False, 's', '', [True], [].
Defaults ==
    {NoValue, Num("int", 10), Num("int", 0), PyBool(TRUE), PyBool(FALSE),
     Str("s"), Str(""), Bools(<<TRUE>>), Bools(<<>>)}

ValueFuncs == {None, "wrap", "tuple"}

FieldSpecs ==
    {DeserializingArg("a", "p", f, r, d) :
        f \in ValueFuncs, r \in BOOLEAN, d \in Defaults}
FirstFieldSpecs ==
    {DeserializingArg("a", "p", f, r, d) :
        f \in {None, "tuple"}, r \in BOOLEAN,
        d \in {NoValue, Num("int", 10), Num("int", 0)}}
SecondFieldSpecs ==
    {DeserializingArg("b", "q", None, r, d) :
        r \in BOOLEAN, d \in {NoValue, Num("int", 10)}}

FieldLists ==
    {<<>>} \cup {<<f>> : f \in FieldSpecs}
        \cup {<<f, g>> : f \in FirstFieldSpecs, g \in SecondFieldSpecs}

GateOpDeserializer(args, num_qubits_param, deserialize_tokens) ==
    [serialized_gate_id |-> "xy",
     args |-> args,
     num_qubits_param |-> num_qubits_param,
     deserialize_tokens |-> deserialize_tokens]

\* The args maps of the operation records drawn.
RECURSIVE DictOfPairs(_)
DictOfPairs(pairs) ==
    IF pairs = <<>> THEN EmptyDict
    ELSE DictSet(DictOfPairs(Tail(pairs)), Head(pairs)[1], Head(pairs)[2])

Absent == [which |-> "absent"]
WireArgMaps ==
    {DictOfPairs(SelectSeq(<<<<"a", a>>, <<"b", b>>>>, LAMBDA e : e[2] # Absent)) :
        a \in {Absent, ArgFloat(2), UnsetArg, ArgBools(<<TRUE>>),
               ArgFunc("pow", <<ArgSymbol("x"), ArgFloat(2)>>)},
        b \in {Absent, ArgFloat(1), UnsetArg}}

TokenLists ==
    UNION {[1..n -> {ConstantString("tokA"), ConstantString("tokB"), ConstantCircuit(1)}]
           : n \in 0..MaxConstants}

InitGateOp ==
    /\ call = "init"
    /\ ret = NoValue
    /\ MoreIdle
    /\ CodecIdle
    /\ InferIdle
    /\ deserialized_constants = NoList
    /\ reads = {}
    /\ \/ \* the field specifications and the args of the record vary
          /\ lang \in {"", "exp"}
          /\ constants = NoList
          /\ \E fields \in FieldLists, n \in {None, "num_qubits"} :
                deserializer = GateOpDeserializer(fields, n, TRUE)
          /\ \E args \in WireArgMaps :
                proto = GateProto(<<"q0", "q1">>, args, NoToken)
       \/ \* the token and the constants vary
          /\ lang = ""
          /\ constants \in {NoList} \cup {List(l) : l \in TokenLists}
          /\ \E tokens \in BOOLEAN :
                deserializer = GateOpDeserializer(<<>>, None, tokens)
          /\ \E token \in {NoToken, TokenValue("t")}
                            \cup {TokenConstantIndex(i) : i \in Indices} :
                proto = GateProto(<<"q0">>, EmptyDict, token)

Call_GateOp_from_proto ==
    /\ call = "init"
    /\ LET o == GateOp_from_proto(deserializer, proto, lang, constants)
       IN /\ ret' = o.ret
          /\ proto' = o.proto
    /\ call' = "GateOpDeserializer.from_proto"
    /\ UNCHANGED <<moreVars, lang, codecVars, program, deserializer, constants,
                   deserialized_constants, reads>>

NextGateOp == Call_GateOp_from_proto

SpecGateOp == InitGateOp /\ [][NextGateOp]_vars

----------------------------------------------------------------------------
(* Claims about CircuitOpDeserializer.from_proto *)

CircuitOpCalled == call = "CircuitOpDeserializer.from_proto"

\* Both lists were handed to from_proto.
ContextSupplied == constants.present /\ deserialized_constants.present

IndexInRange ==
    /\ 0 <= proto.circuit_constant_index
    /\ proto.circuit_constant_index < Len(deserialized_constants.items)

\* C6 as stated: with both lists supplied, from_proto fails with
\* ConstantIndexOutOfRange for every circuit_constant_index that does not
\* satisfy 0 <= index < len(deserialized_constants), negative indices
\* included, and reads no entry of the list.
C6_Original ==
    (CircuitOpCalled /\ ContextSupplied /\ ~IndexInRange)
        => (ret = Error(ConstantIndexOutOfRange) /\ reads = {})

\* C7: from_proto fails with MissingConstantContext whenever constants or
\* deserialized_constants (or both) is not supplied, whatever the record
\* holds, and before any entry is read.
C7_ContextFirst ==
    (CircuitOpCalled /\ ~ContextSupplied)
        => (ret = Error(MissingConstantContext) /\ reads = {})

\* The raw constants are missing while the index is beyond the resolved list.
C7_Witness ==
    /\ CircuitOpCalled
    /\ ~constants.present
    /\ deserialized_constants.present
    /\ proto.circuit_constant_index >= Len(deserialized_constants.items)
    /\ ret = Error(MissingConstantContext)

\* C8: with both lists supplied and the index in range, from_proto returns an
\* operation only if the resolved value at the index is a FrozenCircuit, and
\* that operation wraps it; for a value of any other kind (a token string, a
\* mutable Circuit, None) it fails with WrongConstantKind.
C8_KindCheck ==
    (CircuitOpCalled /\ ContextSupplied /\ IndexInRange)
        => LET v == deserialized_constants.items[proto.circuit_constant_index + 1]
           IN /\ v.kind # "FrozenCircuit" => ret = Error(WrongConstantKind)
              /\ ~IsError(ret) => (v.kind = "FrozenCircuit" /\ ret.circuit = v)

\* The index is in range and names a mutable Circuit.
C8_Witness ==
    /\ CircuitOpCalled
    /\ ContextSupplied
    /\ IndexInRange
    /\ deserialized_constants.items[proto.circuit_constant_index + 1].kind = "Circuit"
    /\ ret = Error(WrongConstantKind)

----------------------------------------------------------------------------
(* Claims about GateOpDeserializer.from_proto *)

GateOpCalled == call = "GateOpDeserializer.from_proto"

\* The step in which from_proto runs: the unprimed variables are its arguments.
GateOpCallStep == call = "init" /\ call' = "GateOpDeserializer.from_proto"

\* The fields before the i-th were processed without an error, so that the
\* loop of _args_from_proto reaches the i-th.
FieldReached(i) ==
    ArgsLoop(SubSeq(deserializer.args, 1, i - 1),
             ArgsState(EmptyDict, proto, NoError), lang).err = NoError

\* C9 as stated, for a deserializer of one field: when the field declares a
\* default (any value but None, 0, False and '' included) and the record has
\* no entry under its serialized_name, from_proto returns an operation whose
\* constructor_arg_name argument is that default, whether or not required is
\* set.
C9_Original ==
    [][(GateOpCallStep /\ Len(deserializer.args) = 1)
         => LET arg == deserializer.args[1]
            IN (arg.default # NoValue /\ arg.serialized_name \notin DOMAIN proto.args)
                 => /\ ~IsError(ret')
                    /\ arg.constructor_arg_name \in DOMAIN ret'.gate.kwargs
                    /\ ret'.gate.kwargs[arg.constructor_arg_name] = arg.default]_vars

C11_Original ==
    [][(GateOpCallStep /\ Len(deserializer.args) = 1)
         => LET arg == deserializer.args[1]
            IN (/\ ~arg.required
                /\ arg.default = NoValue
                /\ arg.serialized_name \notin DOMAIN proto.args)
                 => /\ ~IsError(ret')
                    /\ arg.constructor_arg_name \notin DOMAIN ret'.gate.kwargs]_vars

----------------------------------------------------------------------------
(* More claims about CircuitOpDeserializer.from_proto *)

\* Every check on the constants passes and the argument map is empty.
PlainCircuitOp ==
    /\ constants = GoodConstants
    /\ deserialized_constants = GoodResolved
    /\ proto.circuit_constant_index = 0
    /\ proto.arg_map = <<>>

\* C12: from_proto returns an operation with repetitions = n and no
\* repetition ids for repetition_count = n, with repetitions = len(ids) and
\* the ids in their order for repetition_ids, and with repetitions = 1 and no
\* repetition ids when the oneof is unset.
C12_Repetitions ==
    CircuitOpCalled
        => /\ PlainCircuitOp => ~IsError(ret)
           /\ ~IsError(ret)
                => LET rs == proto.repetition_specification
                   IN CASE rs.which = "repetition_count" ->
                             /\ ret.repetitions = rs.repetition_count
                             /\ ret.repetition_ids = NoList
                        [] rs.which = "repetition_ids" ->
                             /\ ret.repetitions = Len(rs.ids)
                             /\ ret.repetition_ids = List(rs.ids)
                        [] OTHER ->
                             /\ ret.repetitions = 1
                             /\ ret.repetition_ids = NoList

\* Three explicit ids.
C12_Witness ==
    /\ CircuitOpCalled
    /\ proto.repetition_specification = RepIds(<<"a", "b", "c">>)
    /\ ~IsError(ret)
    /\ ret.repetitions = 3
    /\ ret.repetition_ids = List(<<"a", "b", "c">>)

\* The kinds the spec permits as keys (String, Symbol) and as values (String,
\* Symbol, Number) of the argument map, told from the wire record.
KeyPermitted(a) ==
    \/ a.which = "symbol"
    \/ a.which = "arg_value" /\ a.which_val = "string_value"
ValuePermitted(a) ==
    \/ KeyPermitted(a)
    \/ a.which = "arg_value" /\ a.which_val \in {"float_value", "double_value"}

\* C13 as stated: with the constants in order, from_proto fails with
\* InvalidMapEntry when some arg_map key is not a string or symbol or some
\* arg_map value is not a string, symbol or number (a bool list, a function,
\* an unset record), and returns an operation only when every key and every
\* value is of a permitted kind.
C13_Original ==
    (/\ CircuitOpCalled
     /\ constants = GoodConstants
     /\ deserialized_constants = GoodResolved
     /\ proto.circuit_constant_index = 0)
        => LET invalid ==
                   \E i \in 1..Len(proto.arg_map) :
                      \/ ~KeyPermitted(proto.arg_map[i].key)
                      \/ ~ValuePermitted(proto.arg_map[i].value)
           IN /\ invalid => ret = Error(InvalidMapEntry)
              /\ ~IsError(ret) => ~invalid

----------------------------------------------------------------------------
(* More claims about GateOpDeserializer.from_proto *)

TokenIndexInRange ==
    /\ constants.present
    /\ 0 <= proto.token.token_constant_index
    /\ proto.token.token_constant_index < Len(constants.items)

\* C14 as stated: when the record carries token_constant_index and the
\* deserializer deserializes tokens, from_proto fails with
\* MissingConstantTable if constants is None, empty, or the index does not
\* satisfy 0 <= index < len(constants); otherwise the operation returned is
\* tagged with the string at that index.
C14_Original ==
    (/\ GateOpCalled
     /\ deserializer.deserialize_tokens
     /\ proto.token.which = "token_constant_index")
        => IF TokenIndexInRange
           THEN /\ ~IsError(ret)
                /\ LET c == constants.items[proto.token.token_constant_index + 1]
                   IN c.which = "string_value"
                        => ret.tags = <<[calibration_tag |-> c.string_value]>>
           ELSE ret = Error(MissingConstantTable)

\* C16 as stated: after from_proto has returned or raised, the operation
\* record is as it was before the call; in particular proto.args has the same
\* keys, also when a field names an argument the record does not hold.
C16_Original == [][GateOpCallStep => proto' = proto]_vars

----------------------------------------------------------------------------
(* More claims about the codec *)

\* The step in which an encoder runs: `msg` is the record handed in as `out`.
EncodeStep == call = "init" /\ call' \in {"arg_to_proto", "float_arg_to_proto"}

\* C15 as stated: whenever arg_to_proto or float_arg_to_proto raises, the
\* record handed in as `out` is as it was before the call.
C15_Original == [][(EncodeStep /\ IsError(ret')) => msg' = msg]_vars

----------------------------------------------------------------------------
(* The decoders on wire records of any operand count and on numbers of *)
(* either sign                                                         *)

\* A pow record holds at most MaxOperands operands.
MaxOperands == 3
\* The numeric fields hold the numbers -MaxWireTwice/2 .. MaxWireTwice/2 in
\* steps of one half.
MaxWireTwice == 9

PowOperands == {ArgFloat(4), ArgSymbol("x"), UnsetArg}
PowRecords ==
    {ArgFunc("pow", ops) :
        ops \in UNION {[1..n -> PowOperands] : n \in 0..MaxOperands}}

WireTwices == (-MaxWireTwice)..MaxWireTwice
NumericArgs ==
    {ArgFloat(t) : t \in WireTwices} \cup {ArgDouble(t) : t \in WireTwices}
NumericFloatArgs == {FloatArgFloat(t) : t \in WireTwices}

InitWire ==
    /\ call = "init"
    /\ ret = NoValue
    /\ MoreIdle
    /\ InferIdle
    /\ OpIdle
    /\ value = NoValue
    /\ required \in RequiredNames
    /\ \/ /\ lang \in {"linear", "exp", None}
          /\ msg \in PowRecords
       \/ /\ lang = ""
          /\ msg \in NumericArgs \cup NumericFloatArgs

NextWire ==
    \/ Call_arg_from_proto
    \/ Call_float_arg_from_proto

SpecWire == InitWire /\ [][NextWire]_vars

DecodeCalled == call \in {"arg_from_proto", "float_arg_from_proto"}

\* C17 as stated: under a language that permits pow, a decoder returns a
\* value for a record tagged pow only when the record has exactly two
\* operands; with 0, 1, 3 or more operands it fails.
C17_Original ==
    (/\ DecodeCalled
     /\ msg.which = "func"
     /\ msg.type = "pow"
     /\ "pow" \in SUPPORTED_FUNCTIONS_FOR_LANGUAGE(lang))
        => (~IsError(ret) => Len(msg.args) = 2)

\* The record, or an operand record anywhere below it, has no variant set.
RECURSIVE HasUnset(_)
HasUnset(arg) ==
    \/ arg.which = "unset"
    \/ arg.which = "func" /\ \E i \in 1..Len(arg.args) : HasUnset(arg.args[i])

\* C18: for a record with no variant set, arg_from_proto and
\* float_arg_from_proto raise the missing-argument error when
\* required_arg_name is given and return None when it is not; a record with a
\* variant set gives neither, unless an operand record below it is unset.
C18_AbsentField ==
    DecodeCalled
        => /\ msg = UnsetArg
                => ret = IF required # None
                         THEN Error(MissingRequiredArgument) ELSE NoValue
           /\ msg # UnsetArg => ret # NoValue
           /\ ret = Error(MissingRequiredArgument) => HasUnset(msg)

\* float_arg_from_proto on an unset record with a name required.
C18_Witness ==
    /\ call = "float_arg_from_proto"
    /\ msg = UnsetArg
    /\ required # None
    /\ ret = Error(MissingRequiredArgument)

\* The record holds a number: Arg.arg_value.float_value or double_value, or
\* FloatArg.float_value.
IsNumeric(arg) ==
    \/ arg.which = "float_value"
    \/ arg.which = "arg_value" /\ arg.which_val \in {"float_value", "double_value"}

\* The number twice / 2 is a whole number.
IsWhole(twice) == \E n \in (-MaxWireTwice - 1)..(MaxWireTwice + 1) : 2 * n = twice

\* C19: decoding a numeric field gives the number it holds, as an int exactly
\* when the number is whole and as the float otherwise, and arg_from_proto
\* (on float_value and on double_value) and float_arg_from_proto give the
\* same for the same number.
C19_IntegerNormalization ==
    (DecodeCalled /\ IsNumeric(msg))
        => LET t == msg.twice
           IN /\ ret = Num(IF IsWhole(t) THEN "int" ELSE "float", t)
              /\ arg_from_proto(ArgFloat(t), lang, required) = ret
              /\ arg_from_proto(ArgDouble(t), lang, required) = ret
              /\ float_arg_from_proto(FloatArgFloat(t), lang, required) = ret

\* float_arg_from_proto on -2.0
C19_Witness ==
    /\ call = "float_arg_from_proto"
    /\ msg = FloatArgFloat(-4)
    /\ ret = Num("int", -4)

\* C20: float_arg_to_proto raises for every string and every bool list and
\* writes nothing; it writes a number to float_value; and for a symbol or an
\* Add/Mul/Pow expression it writes, or raises, exactly what arg_to_proto
\* does under the same language.
C20_FloatOnly ==
    call = "float_arg_to_proto"
        => /\ value.tag \in {"str", "bools"} => (IsError(ret) /\ msg = UnsetArg)
           /\ value.tag = "num" => (ret = Ok /\ msg = FloatArgFloat(value.twice))
           /\ value.tag \in {"sym", "func"}
                => LET r == arg_to_proto(value, lang, UnsetArg)
                   IN /\ msg = r.msg
                      /\ ret = IF r.err = NoError THEN Ok ELSE Error(r.err)

\* A string is rejected under a language of the table.
C20_Witness ==
    /\ call = "float_arg_to_proto"
    /\ value.tag = "str"
    /\ lang \in SUPPORTED_LANGUAGES
    /\ IsError(ret)
    /\ msg = UnsetArg

----------------------------------------------------------------------------
(* Concurrent decodes: threads that each run one from_proto on a record of *)
(* their own, over the same constants and deserialized_constants.  A step  *)
(* of a thread is one statement of from_proto that reads what is shared.   *)

\* At most MaxTasks threads decode at once.
MaxTasks == 2

Task(kind, self, p) ==
    [kind |-> kind, self |-> self, proto |-> p, pc |-> "start",
     circuit |-> PyNone, position |-> -1, ret |-> NoValue]

\* The records the threads decode.
TaskInputs ==
    {Task("circuit", NoValue, CircuitProto(i, RepUnset, <<>>, <<>>, <<>>)) :
        i \in {-1, 0, 1, 2}}
    \cup {Task("gate", GateOpDeserializer(<<DeserializingArg("a", "p", None, r, NoValue)>>,
                                          None, TRUE),
               GateProto(<<"q0">>, EmptyDict, token)) :
            r \in BOOLEAN,
            token \in {NoToken, TokenConstantIndex(0), TokenConstantIndex(1)}}

\* The resolved constants the threads share.
SharedResolved ==
    {GoodResolved,
     List(<<TokenString("tok"), FrozenCircuit(1)>>),
     List(<<FrozenCircuit(1), FrozenCircuit(2)>>)}

InitConcurrent ==
    /\ call = "init"
    /\ ret = NoValue
    /\ lang = ""
    /\ CodecIdle
    /\ InferIdle
    /\ deserializer = NoValue
    /\ proto = NoValue
    /\ reads = {}
    /\ table = <<>>
    /\ log = <<>>
    /\ engine = NoValue
    /\ deserialized_constants \in SharedResolved
    /\ constants = List([i \in 1..Len(deserialized_constants.items) |->
                            RawOf(deserialized_constants.items[i])])
    /\ tasks \in UNION {[1..n -> TaskInputs] : n \in 1..MaxTasks}

\* A mutant: the subscript takes the entry out of the list.
ReadConstantPopping(resolved, position) ==
    [value |-> resolved.items[position + 1],
     resolved |-> List(SubSeq(resolved.items, 1, position)
                        \o SubSeq(resolved.items, position + 2, Len(resolved.items)))]

\* circuit = deserialized_constants[index] (line 267): the entry, and the
\* list as the subscript leaves it.
ReadConstant(resolved, position) ==
    [value |-> resolved.items[position + 1], resolved |-> resolved]

Finish(t, r) == tasks' = [tasks EXCEPT ![t].pc = "done", ![t].ret = r]
Goto(t, pc) == tasks' = [tasks EXCEPT ![t].pc = pc]
SharedFrame ==
    UNCHANGED <<call, lang, ret, codecVars, program, deserializer, proto, reads,
                table, log, engine>>

\* lines 256-260
CircuitOp_check_context(t) ==
    /\ tasks[t].kind = "circuit" /\ tasks[t].pc = "start"
    /\ IF ~constants.present \/ ~deserialized_constants.present
       THEN Finish(t, Error(MissingConstantContext))
       ELSE Goto(t, "index")
    /\ UNCHANGED <<constants, deserialized_constants>>
    /\ SharedFrame

\* lines 261-266
CircuitOp_check_index(t) ==
    /\ tasks[t].kind = "circuit" /\ tasks[t].pc = "index"
    /\ IF Len(deserialized_constants.items) <= tasks[t].proto.circuit_constant_index
       THEN Finish(t, Error(ConstantIndexOutOfRange))
       ELSE Goto(t, "read")
    /\ UNCHANGED <<constants, deserialized_constants>>
    /\ SharedFrame

\* line 267
CircuitOp_read(t) ==
    /\ tasks[t].kind = "circuit" /\ tasks[t].pc = "read"
    /\ LET position == PyPosition(deserialized_constants.items,
                                  tasks[t].proto.circuit_constant_index)
       IN IF position = -1
          THEN /\ Finish(t, Error(PyIndexError))
               /\ UNCHANGED deserialized_constants
          ELSE LET r == ReadConstant(deserialized_constants, position)
               IN /\ tasks' = [tasks EXCEPT ![t].pc = "kind",
                                            ![t].circuit = r.value,
                                            ![t].position = position]
                  /\ deserialized_constants' = r.resolved
    /\ UNCHANGED constants
    /\ SharedFrame

\* lines 268-272
CircuitOp_check_kind(t) ==
    /\ tasks[t].kind = "circuit" /\ tasks[t].pc = "kind"
    /\ IF tasks[t].circuit.kind # "FrozenCircuit"
       THEN Finish(t, Error(WrongConstantKind))
       ELSE Goto(t, "build")
    /\ UNCHANGED <<constants, deserialized_constants>>
    /\ SharedFrame

\* lines 274-325
CircuitOp_construct(t) ==
    /\ tasks[t].kind = "circuit" /\ tasks[t].pc = "build"
    /\ Finish(t, CircuitOp_build(tasks[t].proto, lang, tasks[t].circuit,
                                 tasks[t].position).ret)
    /\ UNCHANGED <<constants, deserialized_constants>>
    /\ SharedFrame

\* GateOpDeserializer.from_proto, lines 163-181: the arguments, the gate and
\* the operation, from the thread's own record.
GateOp_args(t) ==
    /\ tasks[t].kind = "gate" /\ tasks[t].pc = "start"
    /\ LET st == _args_from_proto(tasks[t].self, tasks[t].proto, lang)
       IN IF st.err # NoError
          THEN tasks' = [tasks EXCEPT ![t].pc = "done", ![t].ret = Error(st.err),
                                      ![t].proto = st.proto]
          ELSE tasks' = [tasks EXCEPT ![t].pc = "token", ![t].proto = st.proto]
    /\ UNCHANGED <<constants, deserialized_constants>>
    /\ SharedFrame

\* GateOpDeserializer.from_proto, lines 182-196: the token, read from constants.
GateOp_token(t) ==
    /\ tasks[t].kind = "gate" /\ tasks[t].pc = "token"
    /\ Finish(t, GateOp_from_proto(tasks[t].self, tasks[t].proto, lang, constants).ret)
    /\ UNCHANGED <<constants, deserialized_constants>>
    /\ SharedFrame

NextConcurrent ==
    \/ \E t \in 1..Len(tasks) : CircuitOp_check_context(t)
    \/ \E t \in 1..Len(tasks) : CircuitOp_check_index(t)
    \/ \E t \in 1..Len(tasks) : CircuitOp_read(t)
    \/ \E t \in 1..Len(tasks) : CircuitOp_check_kind(t)
    \/ \E t \in 1..Len(tasks) : CircuitOp_construct(t)
    \/ \E t \in 1..Len(tasks) : GateOp_args(t)
    \/ \E t \in 1..Len(tasks) : GateOp_token(t)

SpecConcurrent == InitConcurrent /\ [][NextConcurrent]_vars

\* What from_proto gives for the record of a thread when it runs alone.
Alone(task) ==
    IF task.kind = "circuit"
    THEN CircuitOp_from_proto(task.proto, lang, constants, deserialized_constants).ret
    ELSE GateOp_from_proto(task.self, task.proto, lang, constants).ret

\* C21: no step of a decode changes constants or deserialized_constants, and
\* however the threads interleave, what each thread ends with is what
\* from_proto gives for its record alone.
C21_Interleaving ==
    [][/\ constants' = constants
       /\ deserialized_constants' = deserialized_constants
       /\ \A t \in 1..Len(tasks) :
             (tasks[t].pc # "done" /\ tasks'[t].pc = "done")
                => tasks'[t].ret = Alone(tasks[t])]_vars

\* Two threads have finished, a circuit operation built on entry 0 and a
\* gate operation tagged from the same table.
C21_Witness ==
    /\ Len(tasks) = 2
    /\ tasks[1].kind = "circuit" /\ tasks[1].pc = "done"
    /\ tasks[1].ret.tag = "CircuitOperation"
    /\ tasks[2].kind = "gate" /\ tasks[2].pc = "done"
    /\ tasks[2].ret.tag = "GateOperation"
    /\ tasks[2].ret.tags # <<>>

----------------------------------------------------------------------------
(* engine.py: EngineContext and the Engine methods that create a program.  *)
(* The client is remote: the model keeps the calls it has received.        *)

\* At most MaxPrograms programs (and sweeps) in a batch.
MaxPrograms == 2

PyValueError == "ValueError"

ProtoVersions == {"UNDEFINED", "V1", "V2"}
EngineClient(id) == [tag |-> "EngineClient", id |-> id]

\* EngineContext.__init__: the context or the error, and the number of
\* clients it constructed.  Absent arguments are NoValue (None); an absent
\* proto_version is None.
EngineContext(proto_version, service_args, verbose, client, timeout) ==
    IF (service_args # NoValue \/ verbose # NoValue) /\ client # NoValue
    THEN [ret |-> Error(PyValueError), constructed |-> 0]
    ELSE LET version == IF proto_version = None THEN "V2" ELSE proto_version
         IN IF version = "V1"
            THEN [ret |-> Error(PyValueError), constructed |-> 0]
            ELSE [ret |-> [tag |-> "EngineContext",
                           proto_version |-> version,
                           client |-> IF client = NoValue THEN EngineClient("new") ELSE client,
                           timeout |-> timeout],
                  constructed |-> IF client = NoValue THEN 1 ELSE 0]

\* EngineContext.copy
copy(self) ==
    EngineContext(self.proto_version, NoValue, NoValue, self.client, NoValue)

\* A program handed to the engine: a cirq.Circuit (which its device accepts
\* or not) or some other object.
Circuit(id, valid) == [tag |-> "Circuit", id |-> id, valid |-> valid]
NotACircuit == [tag |-> "Schedule", id |-> 0, valid |-> TRUE]
GateSet == [tag |-> "SerializableGateSet"]

\* One call of the client, as the service receives it.
RemoteCall(method, id, payload) == [method |-> method, id |-> id, payload |-> payload]
Returned(r, remote) == [ret |-> r, remote |-> remote]
EngineProgram(program_id, result_type) ==
    [tag |-> "EngineProgram", program_id |-> program_id, result_type |-> result_type]
EngineJob(program_id, params, processor_ids) ==
    [tag |-> "EngineJob", program_id |-> program_id, params |-> params,
     processor_ids |-> processor_ids]

\* _make_random_id, when no id is given.
IdOr(id, prefix) == IF id = "" THEN prefix ELSE id

\* Engine._serialize_program
_serialize_program(context, circuit, gate_set) ==
    IF circuit.tag # "Circuit" THEN Error(PyTypeError)
    ELSE IF ~circuit.valid THEN Error(PyValueError)
    ELSE IF context.proto_version = "V2" THEN [tag |-> "Any", programs |-> <<circuit.id>>]
    ELSE Error(PyValueError)

\* A mutant: the client is called before the program is looked at.
create_program_remote_first(context, remote, circuit, program_id, gate_set) ==
    LET code == _serialize_program(context, circuit, gate_set)
        sent == Append(remote, RemoteCall("create_program", IdOr(program_id, "prog-"), <<>>))
    IN  IF gate_set = NoValue THEN Returned(Error(PyValueError), sent)
        ELSE IF IsError(code) THEN Returned(code, sent)
        ELSE Returned(EngineProgram(IdOr(program_id, "prog-"), "Program"), sent)

\* Engine.create_program
create_program(context, remote, circuit, program_id, gate_set) ==
    IF gate_set = NoValue THEN Returned(Error(PyValueError), remote)
    ELSE LET id == IdOr(program_id, "prog-")
             code == _serialize_program(context, circuit, gate_set)
         IN  IF IsError(code) THEN Returned(code, remote)
             ELSE Returned(EngineProgram(id, "Program"),
                           Append(remote, RemoteCall("create_program", id, code.programs)))

\* Engine.create_batch_program
create_batch_program(context, remote, programs, program_id, gate_set) ==
    IF gate_set = NoValue THEN Returned(Error(PyValueError), remote)
    ELSE LET id == IdOr(program_id, "prog-")
             batch == [i \in 1..Len(programs) |-> programs[i].id]
         IN  Returned(EngineProgram(id, "Batch"),
                      Append(remote, RemoteCall("create_program", id, batch)))

\* Engine.create_calibration_program
create_calibration_program(context, remote, layers, program_id, gate_set) ==
    IF gate_set = NoValue THEN Returned(Error(PyValueError), remote)
    ELSE LET id == IdOr(program_id, "calibration-")
         IN  Returned(EngineProgram(id, "Calibration"),
                      Append(remote, RemoteCall("create_program", id, layers)))

\* EngineProgram.run_sweep, run_batch and run_calibration as the engine
\* calls them: the client creates a job of the program.
EngineProgram_run(engine_program, remote, params, processor_ids) ==
    Returned(EngineJob(engine_program.program_id, params, processor_ids),
             Append(remote, RemoteCall("create_job", engine_program.program_id, params)))

\* Engine.run_sweep
run_sweep(context, remote, circuit, program_id, params, gate_set, processor_ids) ==
    IF gate_set = NoValue THEN Returned(Error(PyValueError), remote)
    ELSE LET created == create_program(context, remote, circuit, program_id, gate_set)
         IN  IF IsError(created.ret) THEN created
             ELSE EngineProgram_run(created.ret, created.remote, <<params>>, processor_ids)

\* Engine.run: the first result of the job of run_sweep.
run(context, remote, circuit, program_id, params, gate_set, processor_ids) ==
    IF gate_set = NoValue THEN Returned(Error(PyValueError), remote)
    ELSE LET job == run_sweep(context, remote, circuit, program_id, params, gate_set,
                              processor_ids)
         IN  IF IsError(job.ret) THEN job
             ELSE Returned([tag |-> "Result", program_id |-> job.ret.program_id,
                            params |-> params],
                           Append(job.remote,
                                  RemoteCall("get_job_results", job.ret.program_id, <<>>)))

\* A mutant: the numbers of programs and sweeps are not compared.
run_batch_unmatched(context, remote, programs, program_id, params_list, gate_set, processor_ids) ==
    LET sweeps == IF params_list.present THEN params_list.items
                  ELSE [i \in 1..Len(programs) |-> NoValue]
        created == create_batch_program(context, remote, programs, program_id, gate_set)
    IN  IF processor_ids = <<>> THEN Returned(Error(PyValueError), remote)
        ELSE IF IsError(created.ret) THEN created
        ELSE EngineProgram_run(created.ret, created.remote, sweeps, processor_ids)

\* Engine.run_batch
run_batch(context, remote, programs, program_id, params_list, gate_set, processor_ids) ==
    LET sweeps == IF params_list.present THEN params_list.items
                  ELSE [i \in 1..Len(programs) |-> NoValue]
    IN  IF params_list.present /\ Len(programs) # Len(params_list.items)
        THEN Returned(Error(PyValueError), remote)
        ELSE IF processor_ids = <<>> THEN Returned(Error(PyValueError), remote)
        ELSE LET created == create_batch_program(context, remote, programs, program_id,
                                                 gate_set)
             IN  IF IsError(created.ret) THEN created
                 ELSE EngineProgram_run(created.ret, created.remote, sweeps, processor_ids)

\* Engine.run_calibration
run_calibration(context, remote, layers, program_id, processor_id, processor_ids, gate_set) ==
    IF processor_id # "" /\ processor_ids # <<>>
    THEN Returned(Error(PyValueError), remote)
    ELSE IF processor_ids = <<>> /\ processor_id = ""
    THEN Returned(Error(PyValueError), remote)
    ELSE LET ids == IF processor_id # "" THEN <<processor_id>> ELSE processor_ids
             created == create_calibration_program(context, remote, layers, program_id,
                                                   gate_set)
         IN  IF IsError(created.ret) THEN created
             ELSE EngineProgram_run(created.ret, created.remote, <<>>, ids)

\* The arguments the calls are given.
EngineContexts ==
    {c \in {EngineContext(v, NoValue, b, cl, t).ret :
               v \in ProtoVersions \cup {None},
               b \in {NoValue, PyBool(TRUE)},
               cl \in {NoValue, EngineClient("given")},
               t \in {NoValue, Num("int", 120)}} : ~IsError(c)}
EnginePrograms == {Circuit(1, TRUE), Circuit(2, FALSE), NotACircuit}
ProgramLists ==
    UNION {[1..n -> {Circuit(1, TRUE)}] : n \in 0..MaxPrograms}
Sweep == [tag |-> "sweep"]
ParamsLists ==
    {NoList} \cup {List(l) : l \in UNION {[1..n -> {NoValue, Sweep}] : n \in 0..MaxPrograms}}
GateSets == {NoValue, GateSet}
ProgramIds == {"", "mine"}
ProcessorIds == {"", "p1"}
ProcessorIdLists == {<<>>, <<"p2">>}
LayerLists == {<<>>, <<"layer">>}

NoArgs ==
    [program |-> NoValue, programs |-> <<>>, layers |-> <<>>, program_id |-> "",
     params |-> NoValue, params_list |-> NoList, gate_set |-> NoValue,
     processor_id |-> "", processor_ids |-> <<>>]

EngineIdle ==
    /\ lang = ""
    /\ CodecIdle
    /\ InferIdle
    /\ OpIdle
    /\ tasks = <<>>
    /\ table = <<>>
    /\ log = <<>>

InitEngine ==
    /\ call = "init"
    /\ ret = NoValue
    /\ EngineIdle
    /\ engine \in {[context |-> c, args |-> NoArgs, remote |-> <<>>, clients |-> 0] :
                     c \in EngineContexts}

EngineFrame ==
    UNCHANGED <<lang, codecVars, program, opVars, tasks, table, log>>

Called(name, args, r) ==
    /\ call' = name
    /\ ret' = r.ret
    /\ engine' = [engine EXCEPT !.args = args, !.remote = r.remote]
    /\ EngineFrame

Call_copy ==
    /\ call = "init"
    /\ LET r == copy(engine.context)
       IN  /\ call' = "EngineContext.copy"
           /\ ret' = r.ret
           /\ engine' = [engine EXCEPT !.clients = @ + r.constructed]
    /\ EngineFrame

Call_run ==
    /\ call = "init"
    /\ \E p \in EnginePrograms, id \in ProgramIds, s \in {NoValue, Sweep},
          g \in GateSets, ids \in ProcessorIdLists :
          Called("Engine.run",
                 [NoArgs EXCEPT !.program = p, !.program_id = id, !.params = s,
                                !.gate_set = g, !.processor_ids = ids],
                 run(engine.context, engine.remote, p, id, s, g, ids))

Call_run_sweep ==
    /\ call = "init"
    /\ \E p \in EnginePrograms, id \in ProgramIds, s \in {NoValue, Sweep},
          g \in GateSets, ids \in ProcessorIdLists :
          Called("Engine.run_sweep",
                 [NoArgs EXCEPT !.program = p, !.program_id = id, !.params = s,
                                !.gate_set = g, !.processor_ids = ids],
                 run_sweep(engine.context, engine.remote, p, id, s, g, ids))

Call_run_batch ==
    /\ call = "init"
    /\ \E ps \in ProgramLists, id \in ProgramIds, pl \in ParamsLists,
          g \in GateSets, ids \in ProcessorIdLists :
          Called("Engine.run_batch",
                 [NoArgs EXCEPT !.programs = ps, !.program_id = id, !.params_list = pl,
                                !.gate_set = g, !.processor_ids = ids],
                 run_batch(engine.context, engine.remote, ps, id, pl, g, ids))

Call_run_calibration ==
    /\ call = "init"
    /\ \E ls \in LayerLists, id \in ProgramIds, pid \in ProcessorIds,
          g \in GateSets, ids \in ProcessorIdLists :
          Called("Engine.run_calibration",
                 [NoArgs EXCEPT !.layers = ls, !.program_id = id, !.processor_id = pid,
                                !.gate_set = g, !.processor_ids = ids],
                 run_calibration(engine.context, engine.remote, ls, id, pid, ids, g))

Call_create_program ==
    /\ call = "init"
    /\ \E p \in EnginePrograms, id \in ProgramIds, g \in GateSets :
          Called("Engine.create_program",
                 [NoArgs EXCEPT !.program = p, !.program_id = id, !.gate_set = g],
                 create_program(engine.context, engine.remote, p, id, g))

Call_create_batch_program ==
    /\ call = "init"
    /\ \E ps \in ProgramLists, id \in ProgramIds, g \in GateSets :
          Called("Engine.create_batch_program",
                 [NoArgs EXCEPT !.programs = ps, !.program_id = id, !.gate_set = g],
                 create_batch_program(engine.context, engine.remote, ps, id, g))

Call_create_calibration_program ==
    /\ call = "init"
    /\ \E ls \in LayerLists, id \in ProgramIds, g \in GateSets :
          Called("Engine.create_calibration_program",
                 [NoArgs EXCEPT !.layers = ls, !.program_id = id, !.gate_set = g],
                 create_calibration_program(engine.context, engine.remote, ls, id, g))

NextEngine ==
    \/ Call_copy
    \/ Call_run
    \/ Call_run_sweep
    \/ Call_run_batch
    \/ Call_run_calibration
    \/ Call_create_program
    \/ Call_create_batch_program
    \/ Call_create_calibration_program

SpecEngine == InitEngine /\ [][NextEngine]_vars

\* C22: run_batch fails when params_list is given with a length other than
\* that of programs, and when no processor id is given; when params_list is
\* None and the call goes through, the job has one None sweep per program.
C22_RunBatch ==
    call = "Engine.run_batch" =>
        LET a == engine.args
        IN  /\ (a.params_list.present /\ Len(a.params_list.items) # Len(a.programs))
                  => IsError(ret)
            /\ a.processor_ids = <<>> => IsError(ret)
            /\ (~a.params_list.present /\ ~IsError(ret))
                  => ret.params = [i \in 1..Len(a.programs) |-> NoValue]

\* run_batch was given two sweeps for one program.
C22_Witness ==
    /\ call = "Engine.run_batch"
    /\ engine.args.params_list.present
    /\ Len(engine.args.params_list.items) = 2
    /\ Len(engine.args.programs) = 1
    /\ engine.args.processor_ids # <<>>
    /\ engine.args.gate_set # NoValue
    /\ IsError(ret)

\* The Engine methods that create a program.
CreatingCalls ==
    {"Engine.run", "Engine.run_sweep", "Engine.run_batch", "Engine.run_calibration",
     "Engine.create_program", "Engine.create_batch_program",
     "Engine.create_calibration_program"}

\* C29: a call of a program-creating Engine method that ends with a raised
\* error has made no call of the remote client: no program and no job exists.
C29_ValidationFirst ==
    (call \in CreatingCalls /\ IsError(ret)) => engine.remote = <<>>

\* run was given a gate set and an object that is no circuit, and raised.
C29_Witness ==
    /\ call = "Engine.run"
    /\ engine.args.gate_set # NoValue
    /\ engine.args.program.tag # "Circuit"
    /\ ret = Error(PyTypeError)
    /\ engine.remote = <<>>

\* C30: the context copy returns has the proto_version, the client and the
\* timeout of the original, and no client was constructed for it.
C30_Original ==
    call = "EngineContext.copy" =>
        /\ ret.proto_version = engine.context.proto_version
        /\ ret.client = engine.context.client
        /\ ret.timeout = engine.context.timeout
        /\ engine.clients = 0

----------------------------------------------------------------------------
(* The pass that resolves the constant table of a program: the entries in  *)
(* order, each circuit entry decoded with the entries resolved before it   *)
(* as deserialized_constants, its frozen circuit appended afterwards.      *)

\* At most MaxTable entries in a constant table.
MaxTable == 3

\* An entry of the table: a string, or a circuit with the constant indices
\* of the circuit-operation records in it.
StringEntry == [which |-> "string_value", refs |-> <<>>]
CircuitEntry(refs) == [which |-> "circuit_value", refs |-> refs]
TableEntries ==
    {StringEntry, CircuitEntry(<<>>)}
        \cup {CircuitEntry(<<i>>) : i \in (-1)..MaxTable}
Tables == UNION {[1..n -> TableEntries] : n \in 0..MaxTable}

RawTable(t) ==
    List([i \in 1..Len(t) |->
            IF t[i].which = "string_value" THEN ConstantString("tok")
            ELSE ConstantCircuit(i)])

InitPass ==
    /\ call = "init"
    /\ ret = NoValue
    /\ lang = ""
    /\ CodecIdle
    /\ InferIdle
    /\ deserializer = NoValue
    /\ proto = NoValue
    /\ reads = {}
    /\ tasks = <<>>
    /\ engine = NoValue
    /\ table \in Tables
    /\ constants = RawTable(table)
    /\ deserialized_constants = List(<<>>)
    /\ log = <<>>

PassFrame ==
    UNCHANGED <<lang, codecVars, program, deserializer, proto, constants, reads,
                tasks, table, engine>>

\* The position (from 0) of the entry the pass resolves next.
Position == Len(deserialized_constants.items)

\* A string entry is resolved to its string.
Resolve_string ==
    /\ call \in {"init", "resolve"}
    /\ Position < Len(table)
    /\ table[Position + 1].which = "string_value"
    /\ deserialized_constants' = List(Append(deserialized_constants.items, TokenString("tok")))
    /\ call' = "resolve"
    /\ UNCHANGED <<ret, log>>
    /\ PassFrame

\* A circuit entry is decoded, its circuit-operation records with the
\* entries resolved so far, and resolved to the frozen circuit; an error of
\* a record ends the pass.
Resolve_circuit ==
    /\ call \in {"init", "resolve"}
    /\ Position < Len(table)
    /\ table[Position + 1].which = "circuit_value"
    /\ LET refs == table[Position + 1].refs
           decoded == [k \in 1..Len(refs) |->
                         CircuitOp_from_proto(CircuitProto(refs[k], RepUnset, <<>>, <<>>, <<>>),
                                              lang, constants, deserialized_constants)]
           failed == {k \in 1..Len(refs) : IsError(decoded[k].ret)}
       IN  /\ log' = log \o [k \in 1..Len(refs) |->
                               [position |-> Position, index |-> refs[k],
                                ret |-> decoded[k].ret, reads |-> decoded[k].reads]]
           /\ IF failed = {}
              THEN /\ deserialized_constants' =
                          List(Append(deserialized_constants.items, FrozenCircuit(Position + 1)))
                   /\ call' = "resolve"
                   /\ UNCHANGED ret
              ELSE /\ ret' = decoded[CHOOSE k \in failed : TRUE].ret
                   /\ call' = "failed"
                   /\ UNCHANGED deserialized_constants
    /\ PassFrame

NextPass == Resolve_string \/ Resolve_circuit

SpecPass == InitPass /\ [][NextPass]_vars

Built(e) == e.ret.tag = "CircuitOperation"

\* C23: in the pass, a record that refers to the position of its own entry
\* or to a later one fails with ConstantIndexOutOfRange; one that refers to
\* an earlier circuit entry passes the index and the kind check and is
\* built; and every operation built is built on an entry resolved before.
C23_DependencyOrder ==
    \A n \in 1..Len(log) :
        LET e == log[n]
        IN  /\ e.index >= e.position => e.ret = Error(ConstantIndexOutOfRange)
            /\ (e.index >= 0 /\ e.index < e.position
                   /\ table[e.index + 1].which = "circuit_value")
                  => /\ Built(e)
                     /\ e.ret.circuit = FrozenCircuit(e.index + 1)
            /\ Built(e) => /\ e.reads \subseteq 0..(e.position - 1)
                           /\ \E i \in 1..e.position :
                                 /\ table[i].which = "circuit_value"
                                 /\ e.ret.circuit = FrozenCircuit(i)

\* The pass has built an operation on the first entry while resolving the
\* second, and then met a record that refers to its own entry.
C23_Witness ==
    /\ Len(log) = 2
    /\ log[1].position = 1 /\ log[1].index = 0 /\ Built(log[1])
    /\ log[2].position = 2 /\ log[2].index = 2
    /\ log[2].ret = Error(ConstantIndexOutOfRange)
    /\ call = "failed"

----------------------------------------------------------------------------
\* Records that refer to the constant the decoded record refers to, with
\* maps of their own.
SiblingRecords ==
    {CircuitProto(proto.circuit_constant_index, RepUnset, qubit_map, measurement_key_map, <<>>) :
        qubit_map \in {<<>>, <<MapEntry("q0", "q2")>>, <<MapEntry("q3", "q1")>>},
        measurement_key_map \in {<<>>, <<MapEntry("m", "o")>>}}

Keys(entries) == {entries[i].key : i \in 1..Len(entries)}

\* C24: the operation from_proto returns holds the resolved constant itself,
\* as it stands in deserialized_constants, and holds the repetitions and the
\* maps of its record beside it; a record with other maps that refers to the
\* same constant gets the same circuit and the maps of its own.
C24_Frame ==
    (/\ call = "CircuitOpDeserializer.from_proto"
     /\ ~IsError(ret))
        => LET resolved == deserialized_constants.items
               circuit == resolved[PyPosition(resolved, proto.circuit_constant_index) + 1]
           IN  /\ ret.circuit = circuit
               /\ circuit = FrozenCircuit(circuit.id)
               /\ DOMAIN ret.qubit_map = {qubit_from_proto_id(k) : k \in Keys(proto.qubit_map)}
               /\ DOMAIN ret.measurement_key_map = Keys(proto.measurement_key_map)
               /\ Len(proto.arg_map) <= 1 => Cardinality(DOMAIN ret.param_resolver) = Len(proto.arg_map)
               /\ \A q \in SiblingRecords :
                     LET other == CircuitOp_from_proto(q, lang, constants,
                                                       deserialized_constants).ret
                     IN  /\ ~IsError(other)
                         /\ other.circuit = ret.circuit
                         /\ \A i \in 1..Len(q.qubit_map) :
                               other.qubit_map[qubit_from_proto_id(q.qubit_map[i].key)]
                                  = qubit_from_proto_id(q.qubit_map[i].value)
                         /\ DOMAIN other.qubit_map
                               = {qubit_from_proto_id(k) : k \in Keys(q.qubit_map)}
                         /\ \A i \in 1..Len(q.measurement_key_map) :
                               other.measurement_key_map[q.measurement_key_map[i].key]
                                  = q.measurement_key_map[i].value
                         /\ DOMAIN other.measurement_key_map = Keys(q.measurement_key_map)

\* An operation was returned for a record with a qubit map and a
\* measurement key map.
C24_Witness ==
    /\ call = "CircuitOpDeserializer.from_proto"
    /\ ~IsError(ret)
    /\ Len(proto.qubit_map) = 1
    /\ Len(proto.measurement_key_map) = 1
    /\ ret.circuit = FrozenCircuit(1)
    /\ DOMAIN ret.qubit_map # {}

----------------------------------------------------------------------------
\* The languages the arguments of the program yield to _max_lang.
YieldedLanguages ==
    UNION {UNION {_function_languages_from_operation(program[m][o])
                  : o \in 1..Len(program[m])}
           : m \in 1..Len(program)}

\* C25: the table gives {} for '', {add, mul} for 'linear' and
\* {add, mul, pow} for 'exp'; each set is a subset of the next along
\* LANGUAGE_ORDER; the set of None is that of MOST_PERMISSIVE_LANGUAGE; and
\* _max_lang of any collection of languages of LANGUAGE_ORDER is a language
\* of it whose set contains the set of every member, for the collection the
\* inference hands it in particular.
C25_TierTable ==
    /\ SUPPORTED_FUNCTIONS_FOR_LANGUAGE("") = {}
    /\ SUPPORTED_FUNCTIONS_FOR_LANGUAGE("linear") = {"add", "mul"}
    /\ SUPPORTED_FUNCTIONS_FOR_LANGUAGE("exp") = {"add", "mul", "pow"}
    /\ \A i \in 1..(Len(LANGUAGE_ORDER) - 1) :
          SUPPORTED_FUNCTIONS_FOR_LANGUAGE(LANGUAGE_ORDER[i])
             \subseteq SUPPORTED_FUNCTIONS_FOR_LANGUAGE(LANGUAGE_ORDER[i + 1])
    /\ SUPPORTED_FUNCTIONS_FOR_LANGUAGE(None)
          = SUPPORTED_FUNCTIONS_FOR_LANGUAGE(MOST_PERMISSIVE_LANGUAGE)
    /\ \A langs \in SUBSET Tiers :
          /\ _max_lang(langs) \in Tiers
          /\ \A e \in langs :
                SUPPORTED_FUNCTIONS_FOR_LANGUAGE(e)
                   \subseteq SUPPORTED_FUNCTIONS_FOR_LANGUAGE(_max_lang(langs))
    /\ call = "_infer_function_language_from_circuit"
          => /\ ret.language \in Tiers
             /\ \A e \in YieldedLanguages :
                   SUPPORTED_FUNCTIONS_FOR_LANGUAGE(e)
                      \subseteq SUPPORTED_FUNCTIONS_FOR_LANGUAGE(ret.language)

\* The inference took the maximum of 'linear' and 'exp'.
C25_Witness ==
    /\ call = "_infer_function_language_from_circuit"
    /\ YieldedLanguages = {"linear", "exp"}
    /\ ret.language = "exp"

----------------------------------------------------------------------------
\* A decoder ran on a function record whose operator the language permits
\* and which has an unset record among its operands, at some depth.
PermittedWithUnsetOperand ==
    /\ DecodeCalled
    /\ value = NoValue
    /\ msg.which = "func"
    /\ lang \in SUPPORTED_LANGUAGES
    /\ msg.type \in SUPPORTED_FUNCTIONS_FOR_LANGUAGE(lang)
    /\ \E i \in 1..Len(msg.args) : HasUnset(msg.args[i])

\* C26: a decoder given a function record with a permitted operator and an
\* unset operand record at any depth raises an error, whether or not the
\* call names a required argument: it returns neither an expression nor None.
C26_UnsetOperand ==
    PermittedWithUnsetOperand => IsError(ret)

\* arg_from_proto, with no name required, on add(add(unset, x), x) under
\* 'linear'.
C26_Witness ==
    /\ PermittedWithUnsetOperand
    /\ call = "arg_from_proto"
    /\ required = None
    /\ lang = "linear"
    /\ msg.type = "add"
    /\ msg.args[1].which = "func"
    /\ HasUnset(msg.args[1])
    /\ ret = Error(MissingRequiredArgument)

----------------------------------------------------------------------------
\* The languages of LANGUAGE_ORDER before `language`.
LowerLanguages(language) ==
    {LANGUAGE_ORDER[i] : i \in 1..LanguageIndex(language)}

\* The language was inferred for a program whose function records are all
\* add, mul or pow.
InferredForKnown ==
    /\ Inferred
    /\ ProgramFunctionTypes(program) \subseteq {"add", "mul", "pow"}

\* C27 as stated: no argument of the program fails with the
\* unrecognized-function error under the inferred language, and under every
\* lower language some argument fails with that error.
C27_Original ==
    InferredForKnown =>
        /\ \A a \in ProgramArgs(program), r \in RequiredNames :
              arg_from_proto(a, ret.language, r) # Error(UnrecognizedFunction)
        /\ \A l \in LowerLanguages(ret.language) :
              \E a \in ProgramArgs(program) :
                 arg_from_proto(a, l, None) = Error(UnrecognizedFunction)

\* C27 amended: no argument fails with the unrecognized-function error under
\* the inferred language; under every lower language some argument has a
\* function record the language does not permit and fails: with the
\* unrecognized-function error, or with the missing-argument error of an
\* unset operand record decoded before that function record.
C27_Amended ==
    InferredForKnown =>
        /\ \A a \in ProgramArgs(program), r \in RequiredNames :
              arg_from_proto(a, ret.language, r) # Error(UnrecognizedFunction)
        /\ \A l \in LowerLanguages(ret.language) :
              \E a \in ProgramArgs(program) :
                 /\ WireHasUnpermitted(a, l)
                 /\ \A r \in RequiredNames :
                       arg_from_proto(a, l, r) =
                          Error(IF FirstFailure(a, l) = "unset"
                                THEN MissingRequiredArgument
                                ELSE UnrecognizedFunction)

\* 'exp' was inferred for the one argument mul(x, pow(x, x)), which decodes
\* under 'exp' and is rejected under 'linear'.
C27_Witness ==
    /\ InferredForKnown
    /\ ret.language = "exp"
    /\ ProgramArgs(program) =
          {ArgFunc("mul", <<ArgSymbol("x"), ArgFunc("pow", <<ArgSymbol("x"), ArgSymbol("x")>>)>>)}
    /\ \A a \in ProgramArgs(program) :
          /\ ~IsError(arg_from_proto(a, "exp", None))
          /\ arg_from_proto(a, "linear", None) = Error(UnrecognizedFunction)

----------------------------------------------------------------------------
(* arg_to_proto called again with the record an earlier call wrote into *)

InitEncode ==
    /\ Init
    /\ value # NoValue

\* The values of a second call: the value of the first, or another one.
SecondValues ==
    {value, Sym("x"), Str("x"), Bools(<<TRUE>>),
     Func("add", <<Sym("x"), Num("int", 2)>>)}

\* A second arg_to_proto(v, ..., out=msg) after one that returned.
Call_arg_to_proto_again ==
    /\ call = "arg_to_proto"
    /\ ret = Ok
    /\ \E v \in SecondValues :
          LET r == arg_to_proto(v, lang, msg)
          IN /\ value' = v
             /\ msg' = r.msg
             /\ ret' = IF r.err = NoError THEN Ok ELSE Error(r.err)
    /\ call' = "arg_to_proto again"
    /\ UNCHANGED <<moreVars, lang, required, program, opVars>>

NextEncode == Call_arg_to_proto \/ Call_arg_to_proto_again

SpecEncode == InitEncode /\ [][NextEncode]_vars

\* C28 as stated: after a second arg_to_proto into the same record, the
\* record is what one call writes into a fresh record; nothing the first call
\* wrote is left in it.
C28_Original ==
    (call = "arg_to_proto again" /\ ret = Ok)
        => msg = arg_to_proto(value, lang, UnsetArg).msg

====
